---- MODULE Spec2Model ----
(***************************************************************************)
(* SD/MMC over SPI block-device driver (sdmmc-spi).                        *)
(*                                                                         *)
(* The driver is sequential.  A state of the model is the device record    *)
(* (status, card_type, csd), the chip-select line, the position of the     *)
(* facade operation in progress (pc, the return labels of the calls in     *)
(* progress, the locals) and what the bus saw last.  One step is one bus   *)
(* primitive (a CS call, an SPI transfer, a slice of transfers) together   *)
(* with the code that runs up to the next bus primitive.  The card and the *)
(* two hardware handles are the environment: every received byte and every *)
(* hardware failure is a choice.                                           *)
(***************************************************************************)
EXTENDS Integers, Sequences, FiniteSets, TLC

VARIABLES status, card_type, csd, csLine, pc, stack, op, ret, loc, buf,
          frame, spi, csLog, wire

vars == <<status, card_type, csd, csLine, pc, stack, op, ret, loc, buf,
          frame, spi, csLog, wire>>

(***************************************************************************)
(* Bounds of the model.  The three attempt limits are the associated       *)
(* constants of the Config type parameter; the model runs them small.      *)
(***************************************************************************)
CMD_MAX_ATTEMPTS == 2
READ_R1_ATTEMPTS == 2
ENTER_SPI_MODE_ATTEMPTS == 2
MaxBlocks == 2

(***************************************************************************)
(* consts.rs                                                               *)
(***************************************************************************)
CMD_BASE == 64
ACMD_FLAG == 128
CMD0 == CMD_BASE
CMD8 == CMD_BASE + 8
CMD9 == CMD_BASE + 9
CMD12 == CMD_BASE + 12
CMD13 == CMD_BASE + 13
CMD17 == CMD_BASE + 17
CMD18 == CMD_BASE + 18
CMD24 == CMD_BASE + 24
CMD25 == CMD_BASE + 25
CMD55 == CMD_BASE + 55
CMD58 == CMD_BASE + 58
CMD59 == CMD_BASE + 59
ACMD41 == CMD_BASE + ACMD_FLAG + 41

DATA_START_BLOCK == 254
STOP_TRAN == 253
WRITE_MULTIPLE == 252
DATA_RES_MASK == 31
DATA_RES_ACCEPTED == 5
\* Constants the driver imports from consts.rs whose definitions are not in
\* the sources at hand; their values are the ones the specification gives.
BLOCK_SIZE == 512
AVAILABLE == 255
CMD8_STATUS == 170
CMD58_OCR == 64

\* response.rs
READY_STATE == 0
IN_IDLE_STATE == 1
IN_IDLE_AND_ILLEGAL == 5
INVALID_MASK == 128

\* lib.rs, associated constants of SdMmcSpi
INIT_SET_VALUE == 255
INIT_SET_SIZE == 10
RECEIVE_TRANSFER_TOKEN == 255

\* csd.rs: CsdData = [u8; 16]
CsdDataLen == 16

(***************************************************************************)
(* Fixed-width arithmetic.  A u8 is 0..255, a u16 is 0..65535; a u32 is a  *)
(* pair <<high 16 bits, low 16 bits>> so that every 32-bit value is        *)
(* representable.                                                          *)
(***************************************************************************)
\* a ^ b and a & b on the low n bits
RECURSIVE BitXor(_, _, _)
BitXor(a, b, n) ==
    IF n = 0 THEN 0
    ELSE ((a + b) % 2) + 2 * BitXor(a \div 2, b \div 2, n - 1)

RECURSIVE BitAnd(_, _, _)
BitAnd(a, b, n) ==
    IF n = 0 THEN 0
    ELSE ((a % 2) * (b % 2)) + 2 * BitAnd(a \div 2, b \div 2, n - 1)

\* a ^ b on u16, four bits at a time
XorNibble == [a \in 0..15 |-> [b \in 0..15 |-> BitXor(a, b, 4)]]

Xor16(a, b) ==
    XorNibble[a % 16][b % 16]
    + 16 * XorNibble[(a \div 16) % 16][(b \div 16) % 16]
    + 256 * XorNibble[(a \div 256) % 16][(b \div 256) % 16]
    + 4096 * XorNibble[(a \div 4096) % 16][(b \div 4096) % 16]

U32(hi, lo) == <<hi, lo>>

\* is_valid taking every byte for an R1
R1IsValidAnyByte(b) == TRUE

\* is_valid (response.rs): the high bit of the R1 byte is clear
R1IsValid(b) == BitAnd(b, INVALID_MASK, 8) = 0

(***************************************************************************)
(* crc.rs                                                                  *)
(***************************************************************************)
\* one turn of the inner loop of crc7: crc <<= 1 (u8), the conditional xor
Crc7Bit(crc, byte) ==
    LET shifted[c \in 0..255] ==
            IF Xor16(BitAnd(byte, 128, 8), BitAnd(c, 128, 8)) # 0
            THEN Xor16(c, 9)
            ELSE c
    IN  shifted[(crc * 2) % 256]

\* the last `bits` turns of the inner loop for one byte; byte <<= 1 (u8)
\* after each turn
RECURSIVE Crc7Byte(_, _, _)
Crc7Byte(crc, byte, bits) ==
    IF bits = 0 THEN crc
    ELSE LET rest[c \in 0..255, b \in 0..255] == Crc7Byte(c, b, bits - 1)
         IN  rest[Crc7Bit(crc, byte), (byte * 2) % 256]

\* the outer loop of crc7 from data[k] on, started with crc
RECURSIVE Crc7From(_, _, _)
Crc7From(crc, data, k) ==
    IF k > Len(data) THEN crc
    ELSE LET rest[c \in 0..255] == Crc7From(c, data, k + 1)
         IN  rest[Crc7Byte(crc, data[k], 8)]

\* crc7(data): the value the function returns, a u8
crc7(data) == Crc7From(0, data, 1)

\* one turn of the loop of crc16
Crc16Byte(crc, byte) ==
    LET s1[c \in 0..65535] == Xor16(c, (c % 256) * 32)
        s2[c \in 0..65535] == s1[Xor16(c, (c * 4096) % 65536)]
        s3[c \in 0..65535] == s2[Xor16(c, (c % 256) \div 16)]
    IN  s3[Xor16((crc \div 256) + (crc % 256) * 256, byte)]

\* the loop of crc16 over data[lo..hi], started with crc: the turns for
\* the first half of the range, then those for the rest started with their
\* result
RECURSIVE Crc16Range(_, _, _, _)
Crc16Range(crc, data, lo, hi) ==
    IF lo > hi THEN crc
    ELSE IF lo = hi THEN Crc16Byte(crc, data[lo])
    ELSE LET rest[c \in 0..65535] ==
                 Crc16Range(c, data, ((lo + hi) \div 2) + 1, hi)
         IN  rest[Crc16Range(crc, data, lo, (lo + hi) \div 2)]

crc16(data) == Crc16Range(0, data, 1, Len(data))

\* crc16 of every block a data phase carries here: BlockLens bytes of one
\* value out of BlockFills
BlockLens == {16, 512}
BlockFills == {0, 165}
BlockCrc16 ==
    [d \in {[k \in 1..n |-> b] : n \in BlockLens, b \in BlockFills} |-> crc16(d)]

(***************************************************************************)
(* send_command_impl, lines 266-276: the 6-byte frame of a command.        *)
(***************************************************************************)
FrameNoStopBit(c, a) ==
    LET prefix == <<c, a[1] \div 256, a[1] % 256, a[2] \div 256, a[2] % 256>>
    IN  Append(prefix, (crc7(prefix) * 2) % 256)

CommandFrame(c, a) ==
    LET prefix == <<c, a[1] \div 256, a[1] % 256, a[2] \div 256, a[2] % 256>>
        shifted == (crc7(prefix) * 2) % 256
    IN  Append(prefix, shifted + (1 - (shifted % 2)))

(***************************************************************************)
(* Values of the model.                                                    *)
(***************************************************************************)
NotInitialized == "NotInitialized"
ErrorOccured == "ErrorOccured"

\* Error<T, S> (lib.rs); a and b carry the payload of TimeoutCommand,
\* ErrorCommand and CrcError
Err(kind, a, b) == [kind |-> kind, a |-> a, b |-> b]
NoErr == Err("none", 0, 0)
Transport == Err("Transport", 0, 0)
SelectError == Err("SelectError", 0, 0)
CantEnableCRC == Err("CantEnableCRC", 0, 0)
TimeoutReadBuffer == Err("TimeoutReadBuffer", 0, 0)
TimeoutWaitAvailable == Err("TimeoutWaitAvailable", 0, 0)
TimeoutCommand(c) == Err("TimeoutCommand", c, 0)
ErrorCommand(c) == Err("ErrorCommand", c, 0)
RegisterReadError == Err("RegisterReadError", 0, 0)
CrcError(card, host) == Err("CrcError", card, host)
ReadError == Err("ReadError", 0, 0)
WriteError == Err("WriteError", 0, 0)
CardNotFound == Err("CardNotFound", 0, 0)

\* Result<(), DiskioError<Error>> of a facade operation; Running while the
\* operation has not returned
Res(kind, e) == [kind |-> kind, err |-> e]
Running == Res("running", NoErr)
Ok == Res("Ok", NoErr)
AlreadyInitialized == Res("AlreadyInitialized", NoErr)
InvalidArgument == Res("InvalidArgument", NoErr)
NotInitializedError == Res("NotInitialized", NoErr)
NotSupported == Res("NotSupported", NoErr)
Hardware(e) == Res("Hardware", e)

Fill(n, b) == [k \in 1..n |-> b]

\* what the bus saw last: one SPI transfer (the byte clocked out, whether
\* the transport reported success) and what the driver used it for
NoTransfer == [role |-> "none", tx |-> 0, ok |-> TRUE]
Xfer(role, tx, ok) == [role |-> role, tx |-> tx, ok |-> ok]

\* the command bytes that go on the wire (ACMD41 goes as CMD41)
Commands ==
    {CMD0, CMD8, CMD9, CMD12, CMD13, CMD17, CMD18, CMD24, CMD25, CMD55,
     CMD58, CMD59, ACMD41 - ACMD_FLAG}

NoFrame == [bytes |-> <<>>, sent |-> 0]

\* what a probe on the bus saw during the operation, in order, one entry
\* per protocol element: a CS call (a: 1 when it returned Ok), a byte sent,
\* a wait that ended with its token, a command frame (a: command byte, b and
\* c: the argument, d: bytes sent), a valid R1, a block or a byte moved.
\* wire.probe tells whether a probe is attached; the driver cannot tell.
Ev(ev, a, b, c, d) == [ev |-> ev, a |-> a, b |-> b, c |-> c, d |-> d]

NoProbe == [probe |-> FALSE, seen |-> <<>>, count |-> FALSE, n |-> 0]
Probe == [probe |-> TRUE, seen |-> <<>>, count |-> FALSE, n |-> 0]

\* wire.count tells whether the calls of transfer() are counted; wire.n is
\* their number in the operation in progress or last run
Counter == [probe |-> FALSE, seen |-> <<>>, count |-> TRUE, n |-> 0]

\* the calls of transfer() (lines 193-199) behind the element e, ok telling
\* whether the last one returned Ok: none for a CS call, one for each byte
\* of a frame or block that went and one for the byte that failed
Transfers(e, ok) ==
    CASE e.ev \in {"cs_on", "cs_off"} -> 0
      [] e.ev = "frame" -> IF ok THEN e.d ELSE e.d + 1
      [] e.ev \in {"data_in", "data_out"} -> IF ok THEN e.b ELSE e.b + 1
      [] OTHER -> 1

\* the element e went over the bus when happened holds
Seen(happened, e) ==
    wire' = [wire EXCEPT
                !.seen = IF wire.probe /\ happened THEN Append(@, e) ELSE @,
                !.n = IF wire.count THEN @ + Transfers(e, spi'.ok) ELSE @]

\* the locals of the functions in progress
Loc0 ==
    [cmd |-> 0, arg |-> U32(0, 0),       \* send_command_impl: cmd, arg
     pcmd |-> 0, parg |-> U32(0, 0),     \* send_command: the command after CMD55
     crc |-> 0,                          \* send_command_impl: crc7's result
     r1 |-> 255,                         \* the R1 a command returned
     want |-> "available",               \* wait_for_token: token_validator
     token |-> 255,                      \* wait_for_token: the token returned
     i |-> 0,                            \* wait_for_token: loop counter
     j |-> 0,                            \* send_command_impl: R1 loop counter
     n |-> 0,                            \* loop counter of the caller
     skip |-> 0,                         \* skip_byte calls done in a row
     ctype |-> "SD1",                    \* check_type: card_type
     wtoken |-> 0,                       \* write_data: token
     off |-> 0, len |-> 0,               \* the slice of buf in a data phase
     chunk |-> 0,                        \* read / write: chunks done
     count |-> 0,                        \* read / write: block_count
     addr |-> U32(0, 0),                 \* read / write: converted lba
     hi |-> 0,                           \* read_data: first CRC byte
     card_crc |-> 0, host_crc |-> 0,     \* read_data / write_data
     block_size |-> 0,                   \* ioctl: *block_size
     acks |-> [c \in Commands |-> 255],  \* the R1 each command got last
     err |-> NoErr]                      \* the Err in flight (none: Ok)

Init ==
    /\ status = {NotInitialized}
    /\ card_type = "SD1"
    /\ csd = [ver |-> "V1", raw |-> Fill(CsdDataLen, 0)]
    /\ csLine \in {"asserted", "deasserted"}
    /\ pc = "idle"
    /\ stack = <<>>
    /\ op = [name |-> "new", len |-> 0, lba |-> 0, ioctl |-> "none"]
    /\ ret = Ok
    /\ loc = Loc0
    /\ buf = <<>>
    /\ frame = NoFrame
    /\ spi = NoTransfer
    /\ csLog = <<>>
    /\ wire = NoProbe

(***************************************************************************)
(* Control: calls, returns and the propagation of an Err by `?`.           *)
(***************************************************************************)
\* return labels at which an Err stops instead of propagating: the match in
\* enter_spi_mode and the `let result = f(self)` of cs_scope / cs_scope_mut
HandlersNoScope == {"esm_match"}

Handlers == {"esm_match", "cs_unselect"}

FirstHandler(stk) ==
    IF \E k \in 1..Len(stk) : stk[k] \in Handlers
    THEN CHOOSE k \in 1..Len(stk) :
             /\ stk[k] \in Handlers
             /\ \A m \in 1..(k - 1) : stk[m] \notin Handlers
    ELSE 0

\* the locals are gone when the closure of a scope or the operation has
\* returned; what stays is what the operation saw and the Err it got
Gone(l) ==
    [Loc0 EXCEPT !.acks = l.acks, !.token = l.token,
                 !.card_crc = l.card_crc, !.host_crc = l.host_crc,
                 !.block_size = l.block_size, !.err = l.err]

\* the locals of send_command_impl and wait_for_token are gone
CommandGone(l) ==
    [l EXCEPT !.cmd = 0, !.arg = U32(0, 0), !.pcmd = 0, !.parg = U32(0, 0),
              !.crc = 0, !.i = 0, !.j = 0, !.want = "available"]

\* the locals left when control arrives at label p
AtLabel(l, p) ==
    IF p = "cs_unselect" THEN Gone(l)
    ELSE IF p = "esm_match" THEN CommandGone(l)
    ELSE l

\* the facade operation returns r
Finish(l, r) ==
    /\ pc' = "idle"
    /\ stack' = <<>>
    /\ loc' = Gone(l)
    /\ ret' = r

\* the function in progress returns Ok to its caller
Return(l) ==
    /\ pc' = Head(stack)
    /\ stack' = Tail(stack)
    /\ loc' = AtLabel([l EXCEPT !.err = NoErr], Head(stack))
    /\ ret' = ret

\* the function in progress returns Err(e); every caller up to the first
\* handler returns it too; with no handler the facade operation returns it
Raise(l, e) ==
    LET k == FirstHandler(stack)
    IN  IF k = 0
        THEN Finish([l EXCEPT !.err = e], Hardware(e))
        ELSE /\ pc' = stack[k]
             /\ stack' = SubSeq(stack, k + 1, Len(stack))
             /\ loc' = AtLabel([l EXCEPT !.err = e], stack[k])
             /\ ret' = ret

\* the function in progress goes on at label p
Goto(l, p) ==
    /\ pc' = p
    /\ stack' = stack
    /\ loc' = l
    /\ ret' = ret

\* a call: the callee starts at p and will return to label back
Call(l, p, back) ==
    /\ pc' = p
    /\ stack' = <<back>> \o stack
    /\ loc' = l
    /\ ret' = ret

\* wait_available_state(): wait_for_token with the validator token ==
\* AVAILABLE, lines 254-260
WaitAvailable(l, back) ==
    Call([l EXCEPT !.want = "available", !.i = 0], "wait_for_token", back)

\* send_command without the CMD55 that announces an application command
SendCommandNoCmd55(l, c, a, back) ==
    /\ pc' = "wait_for_token"
    /\ stack' = <<"sc_frame", back>> \o stack
    /\ loc' = [l EXCEPT !.cmd = c - BitAnd(c, ACMD_FLAG, 8), !.arg = a,
                        !.pcmd = 0, !.want = "available", !.i = 0]
    /\ ret' = ret

\* send_command(c, a), lines 296-302: CMD55 first when c carries ACMD_FLAG;
\* send_command_impl starts with wait_available_state
SendCommand(l, c, a, back) ==
    LET bare == c - BitAnd(c, ACMD_FLAG, 8)
        l1 == IF BitAnd(c, ACMD_FLAG, 8) # 0
              THEN [l EXCEPT !.cmd = CMD55, !.arg = U32(0, 0),
                             !.pcmd = bare, !.parg = a]
              ELSE [l EXCEPT !.cmd = bare, !.arg = a, !.pcmd = 0]
    IN  /\ pc' = "wait_for_token"
        /\ stack' = <<"sc_frame", back>> \o stack
        /\ loc' = [l1 EXCEPT !.want = "available", !.i = 0]
        /\ ret' = ret

(***************************************************************************)
(* The environment: what the hardware handles and the card may answer.     *)
(***************************************************************************)
\* a CS call that fails may or may not have moved the line
CsTarget(call) == IF call = "on" THEN "asserted" ELSE "deasserted"
CsOutcomes(call) ==
    {[ok |-> TRUE, line |-> CsTarget(call)]}
        \cup {[ok |-> FALSE, line |-> x] : x \in {csLine, CsTarget(call)}}

\* select() / unselect(), lines 159-166
CsCall(call, o) ==
    /\ csLog' = Append(csLog, [call |-> call, ok |-> o.ok])
    /\ csLine' = o.line
    /\ Seen(TRUE, Ev("cs_" \o call, IF o.ok THEN 1 ELSE 0, 0, 0, 0))

\* transfer(), lines 193-199: Ok(byte clocked in) or Err(Transport)
RxOutcomes(bytes) ==
    {[ok |-> TRUE, rx |-> b] : b \in bytes} \cup {[ok |-> FALSE, rx |-> 255]}

\* the bytes the card is let to answer, by what the driver is waiting for
PollBytes(want) == IF want = "available" THEN {255, 0} ELSE {255, 254, 0}
R1Bytes(cmd) == IF cmd = CMD8 THEN {1, 5, 255} ELSE {0, 1, 255}
SkipBytes == {0, 170}
EchoBytes == {170, 0}
OcrBytes == {0, 64, 128, 192}
DataFills == {0, 165}
CsdFills == {165}
FrameSent == {3, 6}
DataResBytes == {5, 229, 11}
StatusBytes == {0, 1}

(***************************************************************************)
(* Facade: reset and initialize, lines 504-516, and init, lines 453-489.   *)
(***************************************************************************)
OpRec(name, len, lba, io) == [name |-> name, len |-> len, lba |-> lba, ioctl |-> io]

\* an operation is called with the buffer b (<<>>: it takes none): the
\* per-operation observations start afresh
Begin(o, b) ==
    /\ pc = "idle"
    /\ op' = o
    /\ buf' = b
    /\ csLog' = <<>>
    /\ wire' = [wire EXCEPT !.seen = <<>>, !.n = 0]
    /\ spi' = NoTransfer
    /\ frame' = NoFrame

\* the operation just called goes on at label p
Enter(l, p) ==
    /\ pc' = p
    /\ stack' = <<>>
    /\ loc' = l
    /\ ret' = Running

\* line 506: the status reset stores, given the one it finds
ResetStatusKeepsFlags(st) == st \cup {NotInitialized}

ResetStatus(st) == {NotInitialized}

reset ==
    /\ Begin(OpRec("reset", 0, 0, "none"), <<>>)
    /\ status' = ResetStatus(status)
    /\ Finish(Loc0, Ok)
    /\ UNCHANGED <<card_type, csd, csLine>>

\* the guard of initialize, line 510
IsInitialized(st) == NotInitialized \notin st

initialize ==
    /\ Begin(OpRec("initialize", 0, 0, "none"), <<>>)
    /\ IF IsInitialized(status)
       THEN Finish(Loc0, AlreadyInitialized)
       ELSE Enter(Loc0, "init_unselect")
    /\ UNCHANGED <<status, card_type, csd, csLine>>

\* init, line 456: self.unselect()?
init_unselect ==
    /\ pc = "init_unselect"
    /\ \E o \in CsOutcomes("off") :
          /\ CsCall("off", o)
          /\ IF o.ok
             THEN Goto([loc EXCEPT !.n = 0], "init_warmup")
             ELSE Raise(loc, SelectError)
    /\ UNCHANGED <<status, card_type, csd, op, buf, frame, spi>>

\* init, lines 458-460: INIT_SET_SIZE sends of INIT_SET_VALUE
init_warmup ==
    /\ pc = "init_warmup"
    /\ \E ok \in BOOLEAN :
          /\ spi' = Xfer("warmup", INIT_SET_VALUE, ok)
          /\ Seen(ok, Ev("send", INIT_SET_VALUE, 0, 0, 0))
          /\ IF ~ok THEN Raise(loc, Transport)
             ELSE IF loc.n + 1 < INIT_SET_SIZE
             THEN Goto([loc EXCEPT !.n = loc.n + 1], "init_warmup")
             ELSE Goto([loc EXCEPT !.n = 0], "cs_select")
    /\ UNCHANGED <<status, card_type, csd, csLine, op, buf, frame, csLog>>

(***************************************************************************)
(* cs_scope / cs_scope_mut, lines 169-190.                                 *)
(***************************************************************************)
\* the closure the operation passes to the scope
BodyEntry(name) ==
    CASE name = "initialize" -> "init_body"
      [] name = "read" -> "read_body"
      [] OTHER -> "write_body"

\* init storing ErrorOccured alone when it fails
InitStatusErrorAlone(e) ==
    IF e = NoErr THEN {} ELSE {ErrorOccured}

\* init, lines 472-488: the status and the result of init
InitStatus(e) ==
    IF e = NoErr THEN {} ELSE {ErrorOccured, NotInitialized}

InitResultUntranslated(e) == IF e = NoErr THEN Ok ELSE Hardware(e)

InitResult(e) == IF e = NoErr THEN Ok ELSE Hardware(CardNotFound)

\* the scope returns e (NoErr: Ok) to init, read or write; read and write
\* return it mapped by DiskioError::Hardware, init goes on at line 472
ScopeExit(l, e) ==
    IF op.name = "initialize"
    THEN /\ status' = InitStatus(e)
         /\ Finish([l EXCEPT !.err = e], InitResult(e))
    ELSE /\ status' = status
         /\ Finish([l EXCEPT !.err = e],
                   IF e = NoErr THEN Ok ELSE Hardware(e))

\* self.select()?; let result = f(self);
cs_select ==
    /\ pc = "cs_select"
    /\ \E o \in CsOutcomes("on") :
          /\ CsCall("on", o)
          /\ IF o.ok
             THEN /\ Call(loc, BodyEntry(op.name), "cs_unselect")
                  /\ status' = status
             ELSE ScopeExit(loc, SelectError)
    /\ UNCHANGED <<card_type, csd, op, buf, frame, spi>>

\* self.unselect()?; result: the value the scope returns, given the body's
\* result and whether unselect succeeded
ScopeResult(body, ok) == IF ok THEN body ELSE SelectError

\* (the buffer read_csd read into is gone with the closure of init)
cs_unselect ==
    /\ pc = "cs_unselect"
    /\ \E o \in CsOutcomes("off") :
          /\ CsCall("off", o)
          /\ ScopeExit(loc, ScopeResult(loc.err, o.ok))
    /\ buf' = IF op.name = "initialize" THEN <<>> ELSE buf
    /\ UNCHANGED <<card_type, csd, op, frame, spi>>

(***************************************************************************)
(* Command engine, lines 235-302.                                          *)
(***************************************************************************)
\* token_validator of wait_for_token
TokenValid(want, b) ==
    IF want = "available" THEN b = AVAILABLE ELSE b # AVAILABLE

\* wait_for_token given the error of the data token wait whatever it awaits
TokenTimeoutReadBuffer(want) == TimeoutReadBuffer

\* the error wait_for_token is given
TokenTimeout(want) ==
    IF want = "available" THEN TimeoutWaitAvailable ELSE TimeoutReadBuffer

\* wait_for_token whose loop takes one turn more
wait_for_token_OneMore ==
    /\ pc = "wait_for_token"
    /\ \E o \in RxOutcomes(PollBytes(loc.want)) :
          /\ spi' = Xfer("poll", RECEIVE_TRANSFER_TOKEN, o.ok)
          /\ Seen(o.ok /\ TokenValid(loc.want, o.rx),
                  IF loc.want = "available" THEN Ev("ready", o.rx, 0, 0, 0)
                  ELSE Ev("token", o.rx, 0, 0, 0))
          /\ IF ~o.ok THEN Raise(loc, Transport)
             ELSE IF TokenValid(loc.want, o.rx)
             THEN Return([loc EXCEPT !.token = o.rx])
             ELSE IF loc.i < CMD_MAX_ATTEMPTS
             THEN Goto([loc EXCEPT !.i = loc.i + 1], "wait_for_token")
             ELSE Raise(loc, TokenTimeout(loc.want))
    /\ UNCHANGED <<status, card_type, csd, csLine, op, buf, frame, csLog>>

\* wait_for_token, lines 235-251: one turn of the loop
wait_for_token ==
    /\ pc = "wait_for_token"
    /\ \E o \in RxOutcomes(PollBytes(loc.want)) :
          /\ spi' = Xfer("poll", RECEIVE_TRANSFER_TOKEN, o.ok)
          /\ Seen(o.ok /\ TokenValid(loc.want, o.rx),
                  IF loc.want = "available" THEN Ev("ready", o.rx, 0, 0, 0)
                  ELSE Ev("token", o.rx, 0, 0, 0))
          /\ IF ~o.ok THEN Raise(loc, Transport)
             ELSE IF TokenValid(loc.want, o.rx)
             THEN Return([loc EXCEPT !.token = o.rx])
             ELSE IF loc.i + 1 < CMD_MAX_ATTEMPTS
             THEN Goto([loc EXCEPT !.i = loc.i + 1], "wait_for_token")
             ELSE Raise(loc, TokenTimeout(loc.want))
    /\ UNCHANGED <<status, card_type, csd, csLine, op, buf, frame, csLog>>

\* send_command_impl, lines 266-282: the frame is built and sent; sent is
\* the number of bytes the transport accepted (6: all)
sc_frame ==
    /\ pc = "sc_frame"
    /\ \E sent \in FrameSent :
          LET bytes == CommandFrame(loc.cmd, loc.arg)
              l == [loc EXCEPT !.crc = crc7(SubSeq(bytes, 1, 5)), !.j = 0]
          IN  /\ frame' = [bytes |-> bytes, sent |-> sent]
              /\ spi' = Xfer("frame", bytes[IF sent < 6 THEN sent + 1 ELSE 6], sent = 6)
              /\ Seen(TRUE, Ev("frame", loc.cmd, loc.arg[1], loc.arg[2], sent))
              /\ IF sent < 6 THEN Raise(l, Transport)
                 ELSE IF loc.cmd = CMD12 THEN Goto(l, "sc_skip")
                 ELSE Goto(l, "sc_r1")
    /\ UNCHANGED <<status, card_type, csd, csLine, op, buf, csLog>>

\* send_command_impl, line 281: skip_byte after CMD12
sc_skip ==
    /\ pc = "sc_skip"
    /\ \E o \in RxOutcomes(SkipBytes) :
          /\ spi' = Xfer("skip", RECEIVE_TRANSFER_TOKEN, o.ok)
          /\ Seen(o.ok, Ev("skip", 0, 0, 0, 0))
          /\ IF o.ok THEN Goto(loc, "sc_r1") ELSE Raise(loc, Transport)
    /\ UNCHANGED <<status, card_type, csd, csLine, op, buf, frame, csLog>>

\* send_command_impl, lines 284-292: one turn of the R1 loop; after CMD55
\* send_command goes on with the command itself, line 301
sc_r1 ==
    /\ pc = "sc_r1"
    /\ \E o \in RxOutcomes(R1Bytes(loc.cmd)) :
          /\ spi' = Xfer("r1", RECEIVE_TRANSFER_TOKEN, o.ok)
          /\ Seen(o.ok /\ R1IsValid(o.rx), Ev("r1", 0, 0, 0, 0))
          /\ IF ~o.ok THEN Raise(loc, Transport)
             ELSE IF R1IsValid(o.rx)
             THEN LET l == [loc EXCEPT !.r1 = o.rx, !.acks[loc.cmd] = o.rx]
                  IN  IF loc.cmd = CMD55 /\ loc.pcmd # 0
                      THEN Call([l EXCEPT !.cmd = loc.pcmd, !.arg = loc.parg,
                                          !.pcmd = 0, !.want = "available",
                                          !.i = 0],
                                "wait_for_token", "sc_frame")
                      ELSE Return(CommandGone(l))
             ELSE IF loc.j + 1 < READ_R1_ATTEMPTS
             THEN Goto([loc EXCEPT !.j = loc.j + 1], "sc_r1")
             ELSE Raise(loc, TimeoutCommand(loc.cmd))
    /\ UNCHANGED <<status, card_type, csd, csLine, op, buf, frame, csLog>>

(***************************************************************************)
(* Data phase of a read: read_data, lines 305-322.                         *)
(***************************************************************************)
\* read_data(&mut buf[off+1 .. off+len]) is called; it starts with
\* wait_for_token(token != AVAILABLE, TimeoutReadBuffer)
ReadData(l, off, len, back) ==
    /\ pc' = "wait_for_token"
    /\ stack' = <<"rd_token", back>> \o stack
    /\ loc' = [l EXCEPT !.want = "token", !.i = 0, !.off = off, !.len = len]
    /\ ret' = ret

\* the slice the data phase in progress reads into or writes from
Slice == SubSeq(buf, loc.off + 1, loc.off + loc.len)

\* numbers of bytes a slice transfer may have moved when the transport fails
FailAt(len) == {0, 1, len - 1}

\* lines 306-310: the token must be DATA_START_BLOCK
rd_token ==
    /\ pc = "rd_token"
    /\ IF loc.token # DATA_START_BLOCK
       THEN Raise(loc, ReadError)
       ELSE Goto(loc, "rd_slice")
    /\ UNCHANGED <<status, card_type, csd, csLine, op, buf, frame, spi, csLog,
                 wire>>

\* line 312, receive_slice (lines 212-218): the card sends a block of one
\* byte value; got bytes arrive before the transport fails (len: no failure)
rd_slice ==
    /\ pc = "rd_slice"
    /\ \E fill \in IF op.name = "initialize" THEN CsdFills ELSE DataFills,
          got \in FailAt(loc.len) \cup {loc.len} :
          /\ buf' = [k \in 1..Len(buf) |->
                        IF loc.off < k /\ k <= loc.off + got
                        THEN fill ELSE buf[k]]
          /\ spi' = Xfer("data", RECEIVE_TRANSFER_TOKEN, got = loc.len)
          /\ Seen(TRUE, Ev("data_in", loc.off, got, 0, 0))
          /\ IF got = loc.len
             THEN Goto(loc, "rd_crc_hi")
             ELSE Raise(loc, Transport)
    /\ UNCHANGED <<status, card_type, csd, csLine, op, frame, csLog>>

\* line 317: the comparison of the two CRCs
CrcDiffersNever(card, host) == FALSE

CrcDiffers(card, host) == card # host

\* the card sends the byte of the right CRC or another one
CrcBytes(right) == {right, (right + 1) % 256}

\* line 314, the first receive
rd_crc_hi ==
    /\ pc = "rd_crc_hi"
    /\ LET right == BlockCrc16[Slice] \div 256
       IN  \E o \in RxOutcomes(CrcBytes(right)) :
              /\ spi' = Xfer("crc", RECEIVE_TRANSFER_TOKEN, o.ok)
              /\ Seen(o.ok, Ev("crc_in", o.rx, 0, 0, 0))
              /\ IF o.ok
                 THEN Goto([loc EXCEPT !.hi = o.rx], "rd_crc_lo")
                 ELSE Raise(loc, Transport)
    /\ UNCHANGED <<status, card_type, csd, csLine, op, buf, frame, csLog>>

\* lines 314-321: the second receive and the comparison
rd_crc_lo ==
    /\ pc = "rd_crc_lo"
    /\ LET host == BlockCrc16[Slice]
       IN  \E o \in RxOutcomes(CrcBytes(host % 256)) :
              LET card == loc.hi * 256 + o.rx
                  l == [loc EXCEPT !.card_crc = card, !.host_crc = host]
              IN  /\ spi' = Xfer("crc", RECEIVE_TRANSFER_TOKEN, o.ok)
                  /\ Seen(o.ok, Ev("crc_in", o.rx, 0, 0, 0))
                  /\ IF ~o.ok THEN Raise(loc, Transport)
                     ELSE IF CrcDiffers(card, host)
                     THEN Raise(l, CrcError(card, host))
                     ELSE Return(l)
    /\ UNCHANGED <<status, card_type, csd, csLine, op, buf, frame, csLog>>

(***************************************************************************)
(* Initialization, lines 341-450: the closure of init, lines 462-470.      *)
(***************************************************************************)
\* enter_spi_mode whose loop takes one turn more
EsmIterOneMore(l) ==
    IF l.n <= ENTER_SPI_MODE_ATTEMPTS
    THEN SendCommand(l, CMD0, U32(0, 0), "esm_match")
    ELSE Raise(l, TimeoutCommand(CMD0))

\* enter_spi_mode, lines 342-359: turn l.n of the loop, or the loop is over
EsmIter(l) ==
    IF l.n < ENTER_SPI_MODE_ATTEMPTS
    THEN SendCommand(l, CMD0, U32(0, 0), "esm_match")
    ELSE Raise(l, TimeoutCommand(CMD0))

init_body ==
    /\ pc = "init_body"
    /\ EsmIter([loc EXCEPT !.n = 0])
    /\ UNCHANGED <<status, card_type, csd, csLine, op, buf, frame, spi, csLog,
                 wire>>

\* enter_spi_mode, lines 345-356: the match; on success enable_crc, line 366
esm_match ==
    /\ pc = "esm_match"
    /\ IF loc.err = NoErr
       THEN IF loc.r1 = IN_IDLE_STATE
            THEN SendCommand(loc, CMD59, U32(0, 1), "crc_check")
            ELSE EsmIter([loc EXCEPT !.n = loc.n + 1])
       ELSE IF loc.err = TimeoutCommand(CMD0)
            THEN EsmIter([loc EXCEPT !.n = loc.n + 1, !.err = NoErr])
            ELSE Raise(loc, loc.err)
    /\ UNCHANGED <<status, card_type, csd, csLine, op, buf, frame, spi, csLog,
                 wire>>

\* send_if_cond, lines 377-391: turn l.n of the loop, or the loop is over
IfCondIter(l) ==
    IF l.n < CMD_MAX_ATTEMPTS
    THEN SendCommand(l, CMD8, U32(0, 426), "ifc_r1")
    ELSE Raise(l, TimeoutCommand(CMD8))

\* enable_crc, lines 366-370; then check_type calls send_if_cond, line 411
crc_check ==
    /\ pc = "crc_check"
    /\ IF loc.r1 # IN_IDLE_STATE
       THEN Raise(loc, CantEnableCRC)
       ELSE IfCondIter([loc EXCEPT !.n = 0])
    /\ UNCHANGED <<status, card_type, csd, csLine, op, buf, frame, spi, csLog,
                 wire>>

\* check_type, lines 413-416: the argument of ACMD41
OpCondArgNoHcs(ct) == U32(0, 0)

OpCondArg(ct) == IF ct = "SD1" THEN U32(0, 0) ELSE U32(16384, 0)

\* send_op_comd, lines 398-404: turn l.n of the loop, or the loop is over
OpCondIter(l) ==
    IF l.n < CMD_MAX_ATTEMPTS
    THEN SendCommand(l, ACMD41, OpCondArg(l.ctype), "opc_r1")
    ELSE Raise(l, TimeoutCommand(ACMD41))

\* send_if_cond, lines 378-380
ifc_r1 ==
    /\ pc = "ifc_r1"
    /\ IF loc.r1 = IN_IDLE_AND_ILLEGAL
       THEN OpCondIter([loc EXCEPT !.ctype = "SD1", !.n = 0])
       ELSE Goto([loc EXCEPT !.skip = 0], "ifc_skip")
    /\ UNCHANGED <<status, card_type, csd, csLine, op, buf, frame, spi, csLog,
                 wire>>

\* send_if_cond, lines 382-384
ifc_skip ==
    /\ pc = "ifc_skip"
    /\ \E o \in RxOutcomes(SkipBytes) :
          /\ spi' = Xfer("skip", RECEIVE_TRANSFER_TOKEN, o.ok)
          /\ Seen(o.ok, Ev("skip", 0, 0, 0, 0))
          /\ IF ~o.ok THEN Raise(loc, Transport)
             ELSE IF loc.skip + 1 < 3
             THEN Goto([loc EXCEPT !.skip = loc.skip + 1], "ifc_skip")
             ELSE Goto(loc, "ifc_echo")
    /\ UNCHANGED <<status, card_type, csd, csLine, op, buf, frame, csLog>>

\* send_if_cond, lines 386-388
ifc_echo ==
    /\ pc = "ifc_echo"
    /\ \E o \in RxOutcomes(EchoBytes) :
          /\ spi' = Xfer("r7", RECEIVE_TRANSFER_TOKEN, o.ok)
          /\ Seen(o.ok, Ev("r7", o.rx, 0, 0, 0))
          /\ IF ~o.ok THEN Raise(loc, Transport)
             ELSE IF o.rx = CMD8_STATUS
             THEN OpCondIter([loc EXCEPT !.ctype = "SD2", !.n = 0])
             ELSE IfCondIter([loc EXCEPT !.n = loc.n + 1])
    /\ UNCHANGED <<status, card_type, csd, csLine, op, buf, frame, csLog>>

\* read_csd, line 440, called at line 467
ReadCsd(l) == SendCommand(l, CMD9, U32(0, 0), "csd_r1")

\* send_op_comd, lines 399-401; check_type, lines 420-422; when check_type
\* returns, line 466 stores the type and line 467 calls read_csd
opc_r1 ==
    /\ pc = "opc_r1"
    /\ IF loc.r1 # READY_STATE
       THEN /\ OpCondIter([loc EXCEPT !.n = loc.n + 1])
            /\ UNCHANGED card_type
       ELSE IF loc.ctype = "SD2"
       THEN /\ SendCommand(loc, CMD58, U32(0, 0), "ocr_r1")
            /\ UNCHANGED card_type
       ELSE /\ card_type' = loc.ctype
            /\ ReadCsd(loc)
    /\ UNCHANGED <<status, csd, csLine, op, buf, frame, spi, csLog, wire>>

\* check_type, lines 421-423
ocr_r1 ==
    /\ pc = "ocr_r1"
    /\ IF loc.r1 # READY_STATE
       THEN Raise(loc, ErrorCommand(CMD58))
       ELSE Goto(loc, "ocr_byte")
    /\ UNCHANGED <<status, card_type, csd, csLine, op, buf, frame, spi, csLog,
                 wire>>

\* check_type, lines 424-426
ocr_byte ==
    /\ pc = "ocr_byte"
    /\ \E o \in RxOutcomes(OcrBytes) :
          /\ spi' = Xfer("ocr", RECEIVE_TRANSFER_TOKEN, o.ok)
          /\ Seen(o.ok, Ev("ocr", o.rx, 0, 0, 0))
          /\ IF ~o.ok THEN Raise(loc, Transport)
             ELSE IF BitAnd(o.rx, CMD58_OCR, 8) = CMD58_OCR
             THEN Goto([loc EXCEPT !.ctype = "SDHC", !.skip = 0], "ocr_skip")
             ELSE Goto([loc EXCEPT !.skip = 0], "ocr_skip")
    /\ UNCHANGED <<status, card_type, csd, csLine, op, buf, frame, csLog>>

\* check_type, lines 428-433; then lines 466-467
ocr_skip ==
    /\ pc = "ocr_skip"
    /\ \E o \in RxOutcomes(SkipBytes) :
          /\ spi' = Xfer("skip", RECEIVE_TRANSFER_TOKEN, o.ok)
          /\ Seen(o.ok, Ev("skip", 0, 0, 0, 0))
          /\ IF ~o.ok THEN Raise(loc, Transport) /\ UNCHANGED card_type
             ELSE IF loc.skip + 1 < 3
             THEN /\ Goto([loc EXCEPT !.skip = loc.skip + 1], "ocr_skip")
                  /\ UNCHANGED card_type
             ELSE /\ card_type' = loc.ctype
                  /\ ReadCsd(loc)
    /\ UNCHANGED <<status, csd, csLine, op, buf, frame, csLog>>

\* read_csd, lines 438-444
csd_r1 ==
    /\ pc = "csd_r1"
    /\ IF loc.r1 # READY_STATE
       THEN Raise(loc, RegisterReadError) /\ UNCHANGED buf
       ELSE /\ buf' = Fill(CsdDataLen, 0)
            /\ ReadData(loc, 0, CsdDataLen, "csd_done")
    /\ UNCHANGED <<status, card_type, csd, csLine, op, frame, spi, csLog, wire>>

\* read_csd, lines 446-449, and line 467; the closure returns Ok, line 469
CsdFrom(ct, data) ==
    [ver |-> IF ct = "SD1" THEN "V1" ELSE "V2", raw |-> data]

csd_done ==
    /\ pc = "csd_done"
    /\ csd' = CsdFrom(card_type, buf)
    /\ Return(loc)
    /\ UNCHANGED <<status, card_type, csLine, op, buf, frame, spi, csLog, wire>>

(***************************************************************************)
(* Facade: read, lines 518-540.                                            *)
(***************************************************************************)
\* what callers pass: buffer lengths, block addresses, buffer contents
BufLens == {0, 300} \cup {k * BLOCK_SIZE : k \in 1..MaxBlocks}
Lbas == {42, 8388608}
CallerFills == {85}
WriteFills == {165}

\* validate_buffer_len, lines 117-127: TRUE when the length is accepted
ValidBufferLenNoZeroCheck(len) == len % BLOCK_SIZE = 0

ValidBufferLen(len) == ~(len = 0 \/ len % BLOCK_SIZE # 0)

\* validate_initialized, lines 130-136: TRUE when Ok
ValidInitialized(st) == NotInitialized \notin st

\* `as u32`
ToU32(n) == U32((n \div 65536) % 65536, n % 65536)

\* (lba as usize * BLOCK_SIZE) as u32: the low 32 bits of the product (the
\* multiplication does not overflow a 64-bit usize and wraps a 32-bit one
\* when overflow checks are off), computed on 16-bit halves
TimesBlockSizeU32(lba) ==
    U32((lba \div (65536 \div BLOCK_SIZE)) % 65536,
        (lba % (65536 \div BLOCK_SIZE)) * BLOCK_SIZE)

\* convert_lba, lines 151-156
ConvertLba(ct, lba) ==
    IF ct \in {"SD1", "SD2"} THEN TimesBlockSizeU32(lba) ELSE ToU32(lba)

\* the guards of read and write, then the locals before the scope
DataCall(name, len, lba, b) ==
    /\ Begin(OpRec(name, len, lba, "none"), b)
    /\ IF ~ValidBufferLen(len) THEN Finish(Loc0, InvalidArgument)
       ELSE IF ~ValidInitialized(status) THEN Finish(Loc0, NotInitializedError)
       ELSE Enter([Loc0 EXCEPT !.count = len \div BLOCK_SIZE,
                               !.addr = ConvertLba(card_type, lba)],
                  "cs_select")
    /\ UNCHANGED <<status, card_type, csd, csLine>>

read ==
    \E len \in BufLens, lba \in Lbas, fill \in CallerFills :
       DataCall("read", len, lba, Fill(len, fill))

\* lines 526-530: the command of the closure
read_body ==
    /\ pc = "read_body"
    /\ SendCommand(loc, IF loc.count = 1 THEN CMD17 ELSE CMD18, loc.addr,
                   "rd_cmd_done")
    /\ UNCHANGED <<status, card_type, csd, csLine, op, buf, frame, spi, csLog,
                 wire>>

\* lines 528 and 531-532: the data phase of the first chunk
rd_cmd_done ==
    /\ pc = "rd_cmd_done"
    /\ ReadData([loc EXCEPT !.chunk = 0], 0, BLOCK_SIZE, "rd_next")
    /\ UNCHANGED <<status, card_type, csd, csLine, op, buf, frame, spi, csLog,
                 wire>>

\* lines 531-537 without line 534: no CMD12 after the last chunk
rd_next_NoStop ==
    /\ pc = "rd_next"
    /\ LET l == [loc EXCEPT !.chunk = loc.chunk + 1]
       IN  IF l.chunk < loc.count
           THEN ReadData(l, l.chunk * BLOCK_SIZE, BLOCK_SIZE, "rd_next")
           ELSE Return(l)
    /\ UNCHANGED <<status, card_type, csd, csLine, op, buf, frame, spi, csLog,
                   wire>>

\* lines 531-537: the next chunk, or CMD12 after the last one of several
rd_next ==
    /\ pc = "rd_next"
    /\ LET l == [loc EXCEPT !.chunk = loc.chunk + 1]
       IN  IF loc.count = 1 THEN Return(l)
           ELSE IF l.chunk < loc.count
           THEN ReadData(l, l.chunk * BLOCK_SIZE, BLOCK_SIZE, "rd_next")
           ELSE SendCommand(l, CMD12, U32(0, 0), "rd_stop")
    /\ UNCHANGED <<status, card_type, csd, csLine, op, buf, frame, spi, csLog,
                 wire>>

\* line 534: the R1 of CMD12 is dropped; line 537
rd_stop ==
    /\ pc = "rd_stop"
    /\ Return(loc)
    /\ UNCHANGED <<status, card_type, csd, csLine, op, buf, frame, spi, csLog,
                 wire>>

(***************************************************************************)
(* Data phase of a write: write_data, lines 325-338.                       *)
(***************************************************************************)
\* write_data(token, &buf[off+1 .. off+len]) is called
WriteData(l, token, off, len, back) ==
    Call([l EXCEPT !.wtoken = token, !.off = off, !.len = len],
         "wd_token", back)

\* lines 326-328
wd_token ==
    /\ pc = "wd_token"
    /\ \E ok \in BOOLEAN :
          LET l == [loc EXCEPT !.host_crc = BlockCrc16[Slice]]
          IN  /\ spi' = Xfer("token", loc.wtoken, ok)
              /\ Seen(ok, Ev("token_out", loc.wtoken, 0, 0, 0))
              /\ IF ok THEN Goto(l, "wd_slice") ELSE Raise(l, Transport)
    /\ UNCHANGED <<status, card_type, csd, csLine, op, buf, frame, csLog>>

\* line 329, send_slice (lines 221-227); sent bytes go before the transport
\* fails (len: no failure)
wd_slice ==
    /\ pc = "wd_slice"
    /\ \E sent \in FailAt(loc.len) \cup {loc.len} :
          /\ spi' = Xfer("data", Slice[IF sent < loc.len THEN sent + 1 ELSE sent], sent = loc.len)
          /\ Seen(TRUE, Ev("data_out", loc.off, sent, 0, 0))
          /\ IF sent = loc.len
             THEN Goto(loc, "wd_crc_hi")
             ELSE Raise(loc, Transport)
    /\ UNCHANGED <<status, card_type, csd, csLine, op, buf, frame, csLog>>

\* line 330
wd_crc_hi ==
    /\ pc = "wd_crc_hi"
    /\ \E ok \in BOOLEAN :
          /\ spi' = Xfer("crc", loc.host_crc \div 256, ok)
          /\ Seen(ok, Ev("crc_out", loc.host_crc \div 256, 0, 0, 0))
          /\ IF ok THEN Goto(loc, "wd_crc_lo") ELSE Raise(loc, Transport)
    /\ UNCHANGED <<status, card_type, csd, csLine, op, buf, frame, csLog>>

\* line 331
wd_crc_lo ==
    /\ pc = "wd_crc_lo"
    /\ \E ok \in BOOLEAN :
          /\ spi' = Xfer("crc", loc.host_crc % 256, ok)
          /\ Seen(ok, Ev("crc_out", loc.host_crc % 256, 0, 0, 0))
          /\ IF ok THEN Goto(loc, "wd_resp") ELSE Raise(loc, Transport)
    /\ UNCHANGED <<status, card_type, csd, csLine, op, buf, frame, csLog>>

\* lines 333-337
wd_resp ==
    /\ pc = "wd_resp"
    /\ \E o \in RxOutcomes(DataResBytes) :
          /\ spi' = Xfer("data_res", RECEIVE_TRANSFER_TOKEN, o.ok)
          /\ Seen(o.ok, Ev("data_res", o.rx, 0, 0, 0))
          /\ IF ~o.ok THEN Raise(loc, Transport)
             ELSE IF BitAnd(o.rx, DATA_RES_MASK, 8) # DATA_RES_ACCEPTED
             THEN Raise(loc, WriteError)
             ELSE Return(loc)
    /\ UNCHANGED <<status, card_type, csd, csLine, op, buf, frame, csLog>>

(***************************************************************************)
(* Facade: write, lines 542-573.                                           *)
(***************************************************************************)
write ==
    \E len \in BufLens, lba \in Lbas, fill \in WriteFills :
       DataCall("write", len, lba, Fill(len, fill))

\* lines 550-551 and 561
write_body ==
    /\ pc = "write_body"
    /\ SendCommand(loc, IF loc.count = 1 THEN CMD24 ELSE CMD25, loc.addr,
                   "wr_cmd_done")
    /\ UNCHANGED <<status, card_type, csd, csLine, op, buf, frame, spi, csLog,
                 wire>>

\* lines 562-566 without the calls of wait_available_state
WriteMultiIterNoWait(l) ==
    Goto(l, IF l.chunk < l.count THEN "wrm_ready" ELSE "wrm_stop")

\* lines 562-566: the wait before chunk l.chunk, or the one before STOP_TRAN
WriteMultiIter(l) ==
    WaitAvailable(l, IF l.chunk < l.count THEN "wrm_ready" ELSE "wrm_stop")

\* line 552, or the loop of line 562 starts
wr_cmd_done ==
    /\ pc = "wr_cmd_done"
    /\ IF loc.count = 1
       THEN WriteData(loc, DATA_START_BLOCK, 0, Len(buf), "wr1_data_done")
       ELSE WriteMultiIter([loc EXCEPT !.chunk = 0])
    /\ UNCHANGED <<status, card_type, csd, csLine, op, buf, frame, spi, csLog,
                 wire>>

\* line 553
wr1_data_done ==
    /\ pc = "wr1_data_done"
    /\ WaitAvailable(loc, "wr1_ready")
    /\ UNCHANGED <<status, card_type, csd, csLine, op, buf, frame, spi, csLog,
                 wire>>

\* line 554: CMD13
wr1_ready ==
    /\ pc = "wr1_ready"
    /\ SendCommand(loc, CMD13, U32(0, 0), "wr1_r1")
    /\ UNCHANGED <<status, card_type, csd, csLine, op, buf, frame, spi, csLog,
                 wire>>

\* line 554 without the comparison with READY_STATE
wr1_r1_Unchecked ==
    /\ pc = "wr1_r1"
    /\ Goto(loc, "wr1_status")
    /\ UNCHANGED <<status, card_type, csd, csLine, op, buf, frame, spi, csLog,
                   wire>>

\* lines 554-556
wr1_r1 ==
    /\ pc = "wr1_r1"
    /\ IF loc.r1 # READY_STATE
       THEN Raise(loc, WriteError)
       ELSE Goto(loc, "wr1_status")
    /\ UNCHANGED <<status, card_type, csd, csLine, op, buf, frame, spi, csLog,
                 wire>>

\* lines 557-559 and 570
wr1_status ==
    /\ pc = "wr1_status"
    /\ \E o \in RxOutcomes(StatusBytes) :
          /\ spi' = Xfer("r2", RECEIVE_TRANSFER_TOKEN, o.ok)
          /\ Seen(o.ok, Ev("status", o.rx, 0, 0, 0))
          /\ IF ~o.ok THEN Raise(loc, Transport)
             ELSE IF o.rx # READY_STATE THEN Raise(loc, WriteError)
             ELSE Return(loc)
    /\ UNCHANGED <<status, card_type, csd, csLine, op, buf, frame, csLog>>

\* line 564
wrm_ready ==
    /\ pc = "wrm_ready"
    /\ WriteData(loc, WRITE_MULTIPLE, loc.chunk * BLOCK_SIZE, BLOCK_SIZE,
                 "wrm_data_done")
    /\ UNCHANGED <<status, card_type, csd, csLine, op, buf, frame, spi, csLog,
                 wire>>

\* line 562: the next turn of the loop
wrm_data_done ==
    /\ pc = "wrm_data_done"
    /\ WriteMultiIter([loc EXCEPT !.chunk = loc.chunk + 1])
    /\ UNCHANGED <<status, card_type, csd, csLine, op, buf, frame, spi, csLog,
                 wire>>

\* lines 567 and 570
wrm_stop ==
    /\ pc = "wrm_stop"
    /\ \E ok \in BOOLEAN :
          /\ spi' = Xfer("stop_tran", STOP_TRAN, ok)
          /\ Seen(ok, Ev("send", STOP_TRAN, 0, 0, 0))
          /\ IF ok THEN Return(loc) ELSE Raise(loc, Transport)
    /\ UNCHANGED <<status, card_type, csd, csLine, op, buf, frame, csLog>>

(***************************************************************************)
(* Facade: ioctl, lines 575-584.                                           *)
(***************************************************************************)
IoctlCmds == {"CtrlSync", "GetBlockSize", "GetSectorCount"}

ioctl ==
    \E c \in IoctlCmds :
       /\ Begin(OpRec("ioctl", 0, 0, c), <<>>)
       /\ CASE c = "CtrlSync" ->
                 /\ pc' = "wait_for_token"
                 /\ stack' = <<"ioctl_done">>
                 /\ loc' = [Loc0 EXCEPT !.want = "available", !.i = 0]
                 /\ ret' = Running
            [] c = "GetBlockSize" ->
                 Finish([Loc0 EXCEPT !.block_size = BLOCK_SIZE], Ok)
            [] OTHER -> Finish(Loc0, NotSupported)
       /\ UNCHANGED <<status, card_type, csd, csLine>>

\* line 577: wait_available_state returned Ok
ioctl_done ==
    /\ pc = "ioctl_done"
    /\ Finish(loc, Ok)
    /\ UNCHANGED <<status, card_type, csd, csLine, op, buf, frame, spi, csLog,
                 wire>>

(***************************************************************************)
(* The driver: any facade operation when none is in progress, else the     *)
(* next step of the one in progress.                                       *)
(***************************************************************************)
Next ==
    \/ reset \/ initialize \/ read \/ write \/ ioctl
    \/ init_unselect \/ init_warmup \/ cs_select \/ cs_unselect
    \/ wait_for_token \/ sc_frame \/ sc_skip \/ sc_r1
    \/ rd_token \/ rd_slice \/ rd_crc_hi \/ rd_crc_lo
    \/ init_body \/ esm_match \/ crc_check \/ ifc_r1 \/ ifc_skip \/ ifc_echo
    \/ opc_r1 \/ ocr_r1 \/ ocr_byte \/ ocr_skip \/ csd_r1 \/ csd_done
    \/ read_body \/ rd_cmd_done \/ rd_next \/ rd_stop
    \/ wd_token \/ wd_slice \/ wd_crc_hi \/ wd_crc_lo \/ wd_resp
    \/ write_body \/ wr_cmd_done \/ wr1_data_done \/ wr1_ready \/ wr1_r1
    \/ wr1_status \/ wrm_ready \/ wrm_data_done \/ wrm_stop
    \/ ioctl_done

Spec == Init /\ [][Next]_vars

(***************************************************************************)
(* The frame builder alone: send_command_impl from line 266 on, for every  *)
(* command byte the driver can pass and a set of arguments.                *)
(***************************************************************************)
FrameCmds == CMD_BASE..(CMD_BASE + 63)
FrameArgs ==
    {U32(0, 0), U32(0, 1), U32(0, 426), U32(0, 21504), U32(16384, 0),
     U32(32768, 1), U32(43690, 21845), U32(65535, 65535)}

FrameInit ==
    /\ status = {}
    /\ card_type = "SD1"
    /\ csd = [ver |-> "V1", raw |-> Fill(CsdDataLen, 0)]
    /\ csLine = "asserted"
    /\ pc = "sc_frame"
    /\ stack = <<>>
    /\ op = OpRec("send_command_impl", 0, 0, "none")
    /\ ret = Running
    /\ \E c \in FrameCmds, a \in FrameArgs :
          loc = [Loc0 EXCEPT !.cmd = c, !.arg = a]
    /\ buf = <<>>
    /\ frame = NoFrame
    /\ spi = Xfer("poll", RECEIVE_TRANSFER_TOKEN, TRUE)
    /\ csLog = <<>>
    /\ wire = NoProbe

FrameNext == sc_frame

SpecFrame == FrameInit /\ [][FrameNext]_vars

(***************************************************************************)
(* One facade operation with a probe on the bus.  The operation starts     *)
(* from a state the device can be in between operations: fresh from new(), *)
(* reset after it was initialized, or initialized as each card type.       *)
(***************************************************************************)
FreshDevice ==
    [status |-> {NotInitialized}, card_type |-> "SD1",
     csd |-> [ver |-> "V1", raw |-> Fill(CsdDataLen, 0)]]

InitializedDevice(ct, fill) ==
    [status |-> {}, card_type |-> ct,
     csd |-> CsdFrom(ct, Fill(CsdDataLen, fill))]

DeviceStates ==
    {FreshDevice}
        \cup {InitializedDevice(ct, f) : ct \in {"SD1", "SD2", "SDHC"},
                                         f \in CsdFills}
        \cup {[InitializedDevice("SDHC", f)
                  EXCEPT !.status = ResetStatus({})] : f \in CsdFills}

WireInit ==
    /\ \E d \in DeviceStates :
          /\ status = d.status
          /\ card_type = d.card_type
          /\ csd = d.csd
    /\ csLine \in {"asserted", "deasserted"}
    /\ pc = "idle"
    /\ stack = <<>>
    /\ op = OpRec("new", 0, 0, "none")
    /\ ret = Ok
    /\ loc = Loc0
    /\ buf = <<>>
    /\ frame = NoFrame
    /\ spi = NoTransfer
    /\ csLog = <<>>
    /\ wire = Probe

\* no operation has been called yet
FirstCall == op.name = "new"

WireNext ==
    \/ (FirstCall /\ initialize) \/ (FirstCall /\ read)
    \/ (FirstCall /\ write) \/ (FirstCall /\ ioctl)
    \/ init_unselect \/ init_warmup \/ cs_select \/ cs_unselect
    \/ wait_for_token \/ sc_frame \/ sc_skip \/ sc_r1
    \/ rd_token \/ rd_slice \/ rd_crc_hi \/ rd_crc_lo
    \/ init_body \/ esm_match \/ crc_check \/ ifc_r1 \/ ifc_skip \/ ifc_echo
    \/ opc_r1 \/ ocr_r1 \/ ocr_byte \/ ocr_skip \/ csd_r1 \/ csd_done
    \/ read_body \/ rd_cmd_done \/ rd_next \/ rd_stop
    \/ wd_token \/ wd_slice \/ wd_crc_hi \/ wd_crc_lo \/ wd_resp
    \/ write_body \/ wr_cmd_done \/ wr1_data_done \/ wr1_ready \/ wr1_r1
    \/ wr1_status \/ wrm_ready \/ wrm_data_done \/ wrm_stop
    \/ ioctl_done

SpecWire == WireInit /\ [][WireNext]_vars

(***************************************************************************)
(* One facade operation with the calls of transfer() counted, run to its   *)
(* end: every SPI transfer and every CS call returns, so a step that can   *)
(* be taken is taken.                                                      *)
(***************************************************************************)
CountInit ==
    /\ \E d \in DeviceStates :
          /\ status = d.status
          /\ card_type = d.card_type
          /\ csd = d.csd
    /\ csLine \in {"asserted", "deasserted"}
    /\ pc = "idle"
    /\ stack = <<>>
    /\ op = OpRec("new", 0, 0, "none")
    /\ ret = Ok
    /\ loc = Loc0
    /\ buf = <<>>
    /\ frame = NoFrame
    /\ spi = NoTransfer
    /\ csLog = <<>>
    /\ wire = Counter

\* the steps of the operation in progress, but for the sending of a frame
Steps ==
    \/ init_unselect \/ init_warmup \/ cs_select \/ cs_unselect
    \/ wait_for_token \/ sc_skip \/ sc_r1
    \/ rd_token \/ rd_slice \/ rd_crc_hi \/ rd_crc_lo
    \/ init_body \/ esm_match \/ crc_check \/ ifc_r1 \/ ifc_skip \/ ifc_echo
    \/ opc_r1 \/ ocr_r1 \/ ocr_byte \/ ocr_skip \/ csd_r1 \/ csd_done
    \/ read_body \/ rd_cmd_done \/ rd_next \/ rd_stop
    \/ wd_token \/ wd_slice \/ wd_crc_hi \/ wd_crc_lo \/ wd_resp
    \/ write_body \/ wr_cmd_done \/ wr1_data_done \/ wr1_ready \/ wr1_r1
    \/ wr1_status \/ wrm_ready \/ wrm_data_done \/ wrm_stop
    \/ ioctl_done

CountNext ==
    \/ (FirstCall /\ reset) \/ (FirstCall /\ initialize)
    \/ (FirstCall /\ read) \/ (FirstCall /\ write) \/ (FirstCall /\ ioctl)
    \/ sc_frame
    \/ Steps

\* sc_frame can be taken exactly when pc = "sc_frame" and leaves that label,
\* so its weak fairness is that the frame is not being sent for ever
SpecLive ==
    /\ CountInit /\ [][CountNext]_vars
    /\ WF_vars(Steps)
    /\ []<>(pc # "sc_frame")

(***************************************************************************)
(* The capacity of a version 1 card, csd.rs lines 99-110, for every value  *)
(* of the three CSD fields it reads.                                       *)
(***************************************************************************)
\* bitfield getters of CsdV1 over u128::from_be_bytes, csd.rs lines 17, 22,
\* 27 and 89: bit 127 is the top bit of the first byte
ReadBlockLength(raw) == raw[6] % 16
DeviceSize(raw) == (raw[7] % 4) * 1024 + raw[8] * 4 + raw[9] \div 64
DeviceSizeMultiplier(raw) == (raw[10] % 4) * 2 + raw[11] \div 128

\* an unsigned integer of 16 * n bits, least significant 16 bits first
Wide(x, n) ==
    [k \in 1..n |-> IF k = 1 THEN x % 65536
                    ELSE IF k = 2 THEN (x \div 65536) % 65536 ELSE 0]

\* w << s in the width of w, bits shifted out are lost
ShlWide(w, s) ==
    LET q == s \div 16
        r == s % 16
        at(k) == IF k >= 1 /\ k <= Len(w) THEN w[k] ELSE 0
    IN  [k \in 1..Len(w) |->
            ((at(k - q) * 2^r) % 65536) + ((at(k - q - 1) * 2^r) \div 65536)]

\* what a call comes to: a value, or the panic of an overflow check
Value(w) == [kind |-> "Value", v |-> w]
Panic == [kind |-> "Panic", v |-> <<>>]

\* `<<` on an unsigned integer of 16 * Len(w) bits: a shift count of the
\* width or more panics where overflow checks are compiled in and is
\* masked to the width where they are not
Shl(w, s) ==
    IF s >= 16 * Len(w)
    THEN {Panic, Value(ShlWide(w, s % (16 * Len(w))))}
    ELSE {Value(ShlWide(w, s))}

\* csd.rs lines 100-104: device_size() is a u16 and the shift count a u8,
\* so the shift is done in 16 bits; Size::from_bytes widens the result
CardCapacityV1(raw) ==
    LET shifted == Shl(Wide(DeviceSize(raw), 1),
                       DeviceSizeMultiplier(raw) + ReadBlockLength(raw) + 2)
    IN  {IF o = Panic THEN Panic ELSE Value(Wide(o.v[1], 4)) : o \in shifted}

\* csd.rs lines 106-109: the shift is done in 64 bits, its count in 8 bits;
\* `- 7` below zero panics where overflow checks are compiled in and wraps
\* where they are not
CardCapacityBlocksV1(raw) ==
    LET count == DeviceSizeMultiplier(raw) + ReadBlockLength(raw) - 7
    IN  IF count < 0
        THEN {Panic} \cup
             {o \in Shl(Wide(DeviceSize(raw) + 1, 4), count % 256) : o # Panic}
        ELSE Shl(Wide(DeviceSize(raw) + 1, 4), count)

\* the raw CSD of a version 1 card with the given three fields, all other
\* bits zero
CsdV1Data(ds, m, r) ==
    [k \in 1..CsdDataLen |->
        CASE k = 6 -> r
          [] k = 7 -> ds \div 1024
          [] k = 8 -> (ds \div 4) % 256
          [] k = 9 -> (ds % 4) * 64
          [] k = 10 -> m \div 2
          [] k = 11 -> (m % 2) * 128
          [] OTHER -> 0]

DeviceSizes == {0, 1, 15, 255, 3751, 4095}
Multipliers == 0..7
BlockLengths == 0..15

CapacityInit ==
    /\ status = {}
    /\ card_type = "SD1"
    /\ \E ds \in DeviceSizes, m \in Multipliers, r \in BlockLengths :
          csd = [ver |-> "V1", raw |-> CsdV1Data(ds, m, r)]
    /\ csLine = "deasserted"
    /\ pc = "capacity"
    /\ stack = <<>>
    /\ op \in {OpRec(n, 0, 0, "none") :
                  n \in {"card_capacity", "card_capacity_blocks"}}
    /\ ret = Running
    /\ loc = Loc0
    /\ buf = <<>>
    /\ frame = NoFrame
    /\ spi = NoTransfer
    /\ csLog = <<>>
    /\ wire = NoProbe

card_capacity ==
    /\ pc = "capacity"
    /\ op.name = "card_capacity"
    /\ ret' \in CardCapacityV1(csd.raw)
    /\ pc' = "idle"
    /\ UNCHANGED <<status, card_type, csd, csLine, stack, op, loc, buf,
                   frame, spi, csLog, wire>>

card_capacity_blocks ==
    /\ pc = "capacity"
    /\ op.name = "card_capacity_blocks"
    /\ ret' \in CardCapacityBlocksV1(csd.raw)
    /\ pc' = "idle"
    /\ UNCHANGED <<status, card_type, csd, csLine, stack, op, loc, buf,
                   frame, spi, csLog, wire>>

CapacityNext == card_capacity \/ card_capacity_blocks

SpecCapacity == CapacityInit /\ [][CapacityNext]_vars

(***************************************************************************)
(* Properties.                                                             *)
(***************************************************************************)
\* the operations that run a CS scope
Scoped == {"initialize", "read", "write"}

\* operation name has returned and no other one has been called since
Returned(name) == pc = "idle" /\ op.name = name

\* the scope of the operation in progress (or just over) was entered:
\* select() returned Ok
ScopeEntered ==
    \E k \in 1..Len(csLog) : csLog[k] = [call |-> "on", ok |-> TRUE]

\* C1: initialize() returns only Ok, AlreadyInitialized or
\* Hardware(CardNotFound), whatever the bus does (warm-up included), and
\* when it was not rejected and did not return Ok the status is exactly
\* NotInitialized | ErrorOccured afterwards.
C1_InitializeResults ==
    Returned("initialize") =>
        /\ ret \in {Ok, AlreadyInitialized, Hardware(CardNotFound)}
        /\ ret \notin {Ok, AlreadyInitialized}
              => status = {NotInitialized, ErrorOccured}

\* C2: when the closure of init has failed, with whatever error, the next
\* step is the CS deassert and nothing else on the bus, initialize() returns
\* Hardware(CardNotFound) and the status is NotInitialized | ErrorOccured.
C2_BodyFailureStep ==
    (op.name = "initialize" /\ pc = "cs_unselect" /\ loc.err # NoErr) =>
        /\ pc' = "idle"
        /\ ret' = Hardware(CardNotFound)
        /\ status' = {NotInitialized, ErrorOccured}
        /\ Len(csLog') = Len(csLog) + 1
        /\ csLog'[Len(csLog')].call = "off"
        /\ spi' = spi
        /\ frame' = frame

C2_BodyFailure == [][C2_BodyFailureStep]_vars

\* initialize() has returned after the CSD block came with a wrong CRC16
C2_Witness ==
    /\ Returned("initialize")
    /\ loc.err.kind = "CrcError"
    /\ ret = Hardware(CardNotFound)
    /\ status = {NotInitialized, ErrorOccured}
    /\ csLog[Len(csLog)] = [call |-> "off", ok |-> TRUE]

\* C3: initialize() returns Ok only when CMD0 and CMD59 were answered
\* IN_IDLE, ACMD41 READY, CMD58 READY unless CMD8 was rejected as illegal,
\* CMD9 READY, and the 16 bytes of the CSD came behind the token 0xFE with
\* the CRC16 the host computes over them; the status is then empty.
C3_OkOnlyAfterFullFsm ==
    (Returned("initialize") /\ ret = Ok) =>
        /\ loc.acks[CMD0] = IN_IDLE_STATE
        /\ loc.acks[CMD59] = IN_IDLE_STATE
        /\ loc.acks[ACMD41 - ACMD_FLAG] = READY_STATE
        /\ loc.acks[CMD8] # IN_IDLE_AND_ILLEGAL => loc.acks[CMD58] = READY_STATE
        /\ loc.acks[CMD9] = READY_STATE
        /\ loc.token = DATA_START_BLOCK
        /\ Len(csd.raw) = CsdDataLen
        /\ loc.card_crc = crc16(csd.raw)
        /\ loc.host_crc = loc.card_crc
        /\ status = {}

\* initialize() has returned Ok for a card that took the CMD58 way
C3_Witness ==
    /\ Returned("initialize")
    /\ ret = Ok
    /\ card_type = "SDHC"
    /\ loc.acks[CMD58] = READY_STATE
    /\ status = {}

\* C4: a call a guard rejects does no transfer and no CS call and leaves
\* status, card_type and csd alone: initialize() without NotInitialized
\* returns AlreadyInitialized; read and write return InvalidArgument for a
\* length that is 0 or no multiple of 512, whatever the status, and
\* otherwise NotInitialized while that flag is set; other calls go on.
C4_Untouched ==
    /\ pc' = "idle"
    /\ UNCHANGED <<status, card_type, csd, csLine>>
    /\ spi' = NoTransfer
    /\ csLog' = <<>>
    /\ frame' = NoFrame

C4_GuardStep ==
    /\ (pc = "idle" /\ op'.name = "initialize") =>
          IF NotInitialized \notin status
          THEN ret' = AlreadyInitialized /\ C4_Untouched
          ELSE ret' = Running /\ pc' # "idle"
    /\ (pc = "idle" /\ op'.name \in {"read", "write"}) =>
          IF op'.len = 0 \/ op'.len % 512 # 0
          THEN ret' = InvalidArgument /\ C4_Untouched
          ELSE IF NotInitialized \in status
          THEN ret' = NotInitializedError /\ C4_Untouched
          ELSE ret' = Running /\ pc' # "idle"

C4_Guards == [][C4_GuardStep]_vars

\* read with a buffer of 300 bytes was rejected on an uninitialized device
C4_Witness ==
    /\ Returned("read")
    /\ op.len = 300
    /\ NotInitialized \in status
    /\ ret = InvalidArgument
    /\ spi = NoTransfer
    /\ csLog = <<>>

\* C5: reset() leaves the status exactly NotInitialized, does no transfer
\* and no CS call; a second reset() changes nothing; an initialize() after
\* reset() is not rejected and starts init from its first step.
C5_ResetStep ==
    /\ (pc = "idle" /\ op'.name = "reset") =>
          /\ status' = {NotInitialized}
          /\ pc' = "idle"
          /\ ret' = Ok
          /\ UNCHANGED <<card_type, csd, csLine>>
          /\ spi' = NoTransfer
          /\ csLog' = <<>>
          /\ frame' = NoFrame
    /\ (Returned("reset") /\ op'.name = "reset") => UNCHANGED vars
    /\ (Returned("reset") /\ op'.name = "initialize") =>
          /\ pc' = "init_unselect"
          /\ ret' = Running
          /\ csLog' = <<>>
          /\ spi' = NoTransfer

C5_Reset == [][C5_ResetStep]_vars

\* a device that had been initialized (SDHC) and then reset is in the
\* warm-up of a new init
C5_Witness ==
    /\ op.name = "initialize"
    /\ pc = "init_warmup"
    /\ card_type = "SDHC"
    /\ status = {NotInitialized}

\* C6: once select() has returned Ok, unselect() is called exactly once,
\* after the closure has returned (Ok or not) and before the operation
\* returns; when an operation that called CS has returned and every CS call
\* returned Ok, the line is deasserted.
C6_DeassertOnce ==
    /\ \A k \in 1..Len(csLog) :
          csLog[k] = [call |-> "on", ok |-> TRUE] =>
             IF pc = "idle"
             THEN Len(csLog) = k + 1 /\ csLog[k + 1].call = "off"
             ELSE Len(csLog) = k
    /\ (pc = "idle" /\ op.name \in Scoped /\ csLog # <<>>
          /\ \A k \in 1..Len(csLog) : csLog[k].ok)
       => csLine = "deasserted"

\* a read whose closure failed has returned: unselect was called, the line
\* is deasserted
C6_Witness ==
    /\ Returned("read")
    /\ ret = Hardware(ReadError)
    /\ csLog = <<[call |-> "on", ok |-> TRUE], [call |-> "off", ok |-> TRUE]>>
    /\ csLine = "deasserted"

\* C7: the scope returns the error of its closure also when unselect()
\* fails after it; the error of unselect() is returned only when the
\* closure returned Ok.
C7_BodyErrorStep ==
    (pc = "cs_unselect" /\ pc' = "idle") =>
        loc'.err = IF loc.err # NoErr THEN loc.err
                   ELSE IF csLog'[Len(csLog')].ok THEN NoErr ELSE SelectError

C7_BodyErrorFirst == [][C7_BodyErrorStep]_vars

\* C8: transfers after the warm-up happen with CS asserted, the operation
\* ends with unselect(), and when the closure has returned Ok the last
\* transfer before unselect() is a receive of 0xFF whose byte the driver
\* drops.
C8_TrailingDummy ==
    /\ (op.name \in Scoped /\ spi.role \notin {"none", "warmup"})
          => ScopeEntered
    /\ (Returned("initialize") \/ Returned("read") \/ Returned("write"))
          /\ ScopeEntered
          => csLog[Len(csLog)].call = "off"
    /\ (pc = "cs_unselect" /\ loc.err = NoErr) =>
          spi.role = "skip" /\ spi.tx = RECEIVE_TRANSFER_TOKEN /\ spi.ok

\* CRC-7 by the book: the remainder of M(x) * x^7 divided by
\* x^7 + x^3 + 1, M the message, most significant bit first
Crc7Generator == <<1, 0, 0, 0, 1, 0, 0, 1>>

MessageBits(bytes) ==
    [k \in 1..(8 * Len(bytes) + 7) |->
        IF k <= 8 * Len(bytes)
        THEN (bytes[((k - 1) \div 8) + 1] \div 2 ^ (7 - ((k - 1) % 8))) % 2
        ELSE 0]

\* one step of the long division: the generator is subtracted at bit i
\* when that bit is set
DivideAt(bits, i) ==
    IF bits[i] = 0 THEN bits
    ELSE [k \in DOMAIN bits |->
             IF k >= i /\ k <= i + 7
             THEN (bits[k] + Crc7Generator[k - i + 1]) % 2
             ELSE bits[k]]

RECURSIVE Divide(_, _)
Divide(bits, i) ==
    IF i + 7 > Len(bits) THEN bits
    ELSE LET rest[b \in {DivideAt(bits, i)}] == Divide(b, i + 1)
         IN  rest[DivideAt(bits, i)]

RefCrc7(bytes) ==
    LET r == Divide(MessageBits(bytes), 1)
        n == Len(r)
    IN  64 * r[n - 6] + 32 * r[n - 5] + 16 * r[n - 4] + 8 * r[n - 3]
        + 4 * r[n - 2] + 2 * r[n - 1] + r[n]

\* the frame whose bytes have all been sent is awaiting its answer
FrameSentWhole == pc \in {"sc_skip", "sc_r1"}

\* C9: a frame the driver has sent is [cmd, arg[31:24], arg[23:16],
\* arg[15:8], arg[7:0], t], t with bit 0 set and bits 7..1 the CRC-7 of the
\* five bytes before it; t is 0x95 for CMD0 with argument 0 and 0x87 for
\* CMD8 with argument 0x1AA.
C9_FrameLayout ==
    FrameSentWhole =>
        LET b == frame.bytes
        IN  /\ Len(b) = 6
            /\ frame.sent = 6
            /\ b[1] = loc.cmd
            /\ b[2] = loc.arg[1] \div 256
            /\ b[3] = loc.arg[1] % 256
            /\ b[4] = loc.arg[2] \div 256
            /\ b[5] = loc.arg[2] % 256
            /\ b[6] % 2 = 1
            /\ b[6] \div 2 = RefCrc7(SubSeq(b, 1, 5))
            /\ (loc.cmd = CMD0 /\ loc.arg = U32(0, 0)) => b[6] = 149
            /\ (loc.cmd = CMD8 /\ loc.arg = U32(0, 426)) => b[6] = 135

\* the frame of CMD8 with argument 0x1AA has been sent
C9_Witness ==
    /\ FrameSentWhole
    /\ frame.bytes = <<72, 0, 0, 1, 170, 135>>

\* C10: crc7 returns 0x4A for [0x40,0,0,0,0] and 0x43 for
\* [0x48,0,0,0x01,0xAA].
C10_KnownVectors ==
    FrameSentWhole =>
        /\ SubSeq(frame.bytes, 1, 5) = <<64, 0, 0, 0, 0>> => loc.crc = 74
        /\ SubSeq(frame.bytes, 1, 5) = <<72, 0, 0, 1, 170>> => loc.crc = 67

(***************************************************************************)
(* Data commands: the argument on the wire.                                *)
(***************************************************************************)
\* the commands that carry a block address
DataCommands == {CMD17, CMD18, CMD24, CMD25}

\* a number as three base-65536 digits, most significant first: lba itself
\* and the exact product lba * BLOCK_SIZE
LbaDigits(lba) == <<0, lba \div 65536, lba % 65536>>

LbaTimesBlockSizeDigits(lba) ==
    <<lba \div (65536 * (65536 \div BLOCK_SIZE)),
      (lba \div (65536 \div BLOCK_SIZE)) % 65536,
      (lba % (65536 \div BLOCK_SIZE)) * BLOCK_SIZE>>

\* the 32-bit argument of the frame on the wire, in the same digits
WireArgDigits ==
    <<0, frame.bytes[2] * 256 + frame.bytes[3],
      frame.bytes[4] * 256 + frame.bytes[5]>>

\* a data command of the read or write in progress (or just over) is the
\* last frame built
DataFrameOnWire ==
    /\ op.name \in {"read", "write"}
    /\ frame # NoFrame
    /\ frame.bytes[1] \in DataCommands

\* C11: for every lba passed to read or write on an initialized device, the
\* 32-bit argument of CMD17/CMD18/CMD24/CMD25 on the wire equals lba * 512
\* when card_type is SD1 or SD2 and equals lba when card_type is SDHC.
C11_WireArgument ==
    DataFrameOnWire =>
        WireArgDigits = IF card_type \in {"SD1", "SD2"}
                        THEN LbaTimesBlockSizeDigits(op.lba)
                        ELSE LbaDigits(op.lba)

(***************************************************************************)
(* initialize(): the order of the bus events.                              *)
(***************************************************************************)
\* CS calls, single bytes sent and command frames, in the order seen
BusOrder ==
    SelectSeq(wire.seen,
              LAMBDA e : e.ev \in {"cs_on", "cs_off", "send", "frame"})

\* a CS call that returned Ok, a frame that was sent whole
Whole(e) ==
    CASE e.ev \in {"cs_on", "cs_off"} -> e.a = 1
      [] e.ev = "frame" -> e.d = 6
      [] OTHER -> TRUE

IsFrame(e, c, hi, lo) == e.ev = "frame" /\ e.a = c /\ e.b = hi /\ e.c = lo

IsCommand(e, c) == e.ev = "frame" /\ e.a = c

\* The pattern as an automaton.  A position is the step the last event
\* belongs to, how many events of that step were seen, whether the CS assert
\* succeeded and whether the last event was whole; "bad" is the position
\* after an event out of order.
Pos(st, n, scope, whole) ==
    [st |-> st, n |-> n, scope |-> scope, whole |-> whole]
Bad == Pos("bad", 0, FALSE, FALSE)

\* the position after a frame of step st
Framed(st, n, e) == Pos(st, n, TRUE, Whole(e))

\* the position after event e at position q of a run in which the last
\* CMD8 was answered by r8; closing tells which runs may end with a CS
\* deassert out of turn: "always" (every failing run) or "scope" (the
\* failing runs whose CS assert succeeded)
After(q, e, r8, closing) ==
    LET deassert == e.ev = "cs_off"
        close == IF deassert /\ (closing = "always" \/ q.scope)
                 THEN Pos("closed", 0, q.scope, Whole(e)) ELSE Bad
    IN  CASE q.st = "start" ->
                 IF deassert
                 THEN IF Whole(e) THEN Pos("warmup", 0, FALSE, TRUE)
                      ELSE Pos("closed", 0, FALSE, FALSE)
                 ELSE Bad
          [] q.st = "warmup" ->
                 IF e.ev = "send" /\ e.a = INIT_SET_VALUE /\ q.n < INIT_SET_SIZE
                 THEN Pos("warmup", q.n + 1, FALSE, TRUE)
                 ELSE IF e.ev = "cs_on" /\ q.n = INIT_SET_SIZE
                 THEN IF Whole(e) THEN Pos("select", 0, TRUE, TRUE)
                      ELSE Pos("failed", 0, FALSE, FALSE)
                 ELSE close
          [] q.st = "failed" -> close
          [] ~q.whole -> close
          [] q.st = "select" ->
                 IF IsCommand(e, CMD0) THEN Framed("CMD0", 1, e) ELSE close
          [] q.st = "CMD0" ->
                 IF IsCommand(e, CMD0) /\ q.n < ENTER_SPI_MODE_ATTEMPTS
                 THEN Framed("CMD0", q.n + 1, e)
                 ELSE IF IsCommand(e, CMD59) THEN Framed("CMD59", 1, e)
                 ELSE close
          [] q.st = "CMD59" ->
                 IF IsCommand(e, CMD8) THEN Framed("CMD8", 1, e) ELSE close
          [] q.st = "CMD8" ->
                 IF IsCommand(e, CMD8) THEN Framed("CMD8", q.n + 1, e)
                 ELSE IF IsFrame(e, CMD55, 0, 0) THEN Framed("CMD55", 1, e)
                 ELSE close
          [] q.st = "CMD55" ->
                 IF IsCommand(e, ACMD41 - ACMD_FLAG)
                 THEN Framed("CMD41", q.n, e)
                 ELSE close
          [] q.st = "CMD41" ->
                 IF IsFrame(e, CMD55, 0, 0) THEN Framed("CMD55", q.n + 1, e)
                 ELSE IF IsCommand(e, CMD58) /\ r8 # IN_IDLE_AND_ILLEGAL
                 THEN Framed("CMD58", 1, e)
                 ELSE IF IsCommand(e, CMD9) /\ r8 = IN_IDLE_AND_ILLEGAL
                 THEN Framed("CMD9", 1, e)
                 ELSE close
          [] q.st = "CMD58" ->
                 IF IsCommand(e, CMD9) THEN Framed("CMD9", 1, e) ELSE close
          [] q.st = "CMD9" ->
                 IF deassert THEN Pos("end", 0, TRUE, Whole(e)) ELSE Bad
          [] OTHER -> Bad

RECURSIVE RunFrom(_, _, _, _, _)
RunFrom(q, es, k, r8, closing) ==
    IF k > Len(es) THEN q
    ELSE RunFrom(After(q, es[k], r8, closing), es, k + 1, r8, closing)

InitRun(closing) ==
    RunFrom(Pos("start", 0, FALSE, TRUE), BusOrder, 1, loc.acks[CMD8], closing)

\* initialize() ran (it was not rejected by the guard) and has returned
InitializeRan == Returned("initialize") /\ ret # AlreadyInitialized

\* the run is over in order: Ok after the whole pattern, an error after a
\* prefix closed as closing allows (the first CS deassert closes the empty
\* prefix), or (allowed by early) at the event that failed before the scope
InOrder(closing, early) ==
    LET q == InitRun(closing)
    IN  IF ret = Ok THEN q = Pos("end", 0, TRUE, TRUE)
        ELSE \/ q.st \in {"closed", "end"}
             \/ q = Pos("warmup", 0, FALSE, TRUE)
             \/ early /\ q.st \in {"warmup", "failed"}

\* the answers each step waited for before the next one started
StepsSucceeded ==
    LET sent(c) == \E k \in 1..Len(BusOrder) : IsCommand(BusOrder[k], c)
    IN  /\ sent(CMD59) => loc.acks[CMD0] = IN_IDLE_STATE
        /\ sent(CMD8) => loc.acks[CMD59] = IN_IDLE_STATE
        /\ sent(CMD55) => R1IsValid(loc.acks[CMD8])
        /\ sent(CMD58) => loc.acks[ACMD41 - ACMD_FLAG] = READY_STATE
        /\ sent(CMD9) =>
              /\ loc.acks[ACMD41 - ACMD_FLAG] = READY_STATE
              /\ sent(CMD58) => loc.acks[CMD58] = READY_STATE

\* the warm-up bytes go out with CS deasserted, the frames with CS asserted
LineDuringInit ==
    op.name = "initialize" =>
        /\ pc = "init_warmup" => csLine = "deasserted"
        /\ pc = "sc_frame" => csLine = "asserted"

\* C12 as stated: on every run of initialize() that is not rejected by the
\* guard the bus events are, in order, CS deassert, 10 bytes 0xFF with CS
\* deasserted, CS assert, the frames CMD0 (1..ENTER_SPI_MODE_ATTEMPTS),
\* CMD59, CMD8 (1 or more), pairs CMD55(0) CMD41 (1 or more), CMD58 exactly
\* when CMD8 was not answered 0x05, CMD9, CS deassert; every failing run is
\* a prefix of this followed by CS deassert; no step starts before its
\* predecessor succeeded.
C12_EveryRunClosed ==
    /\ InitializeRan => InOrder("always", FALSE) /\ StepsSucceeded
    /\ LineDuringInit

\* C12, amended: the same, except that a run failing before the scope (a
\* warm-up byte or the CS assert fails) ends at the failing event, with no
\* CS deassert after it; a failing run whose CS assert succeeded is a
\* prefix followed by CS deassert.
C12_InitOrder ==
    /\ InitializeRan => InOrder("scope", TRUE) /\ StepsSucceeded
    /\ LineDuringInit

\* initialize() returned Ok for an SD2 or SDHC card after a retry of CMD0
C12_Witness ==
    /\ Returned("initialize") /\ ret = Ok
    /\ InitRun("scope") = Pos("end", 0, TRUE, TRUE)
    /\ \E k \in 1..Len(BusOrder) : IsCommand(BusOrder[k], CMD58)
    /\ Len(SelectSeq(BusOrder, LAMBDA e : IsCommand(e, CMD0))) = 2

(***************************************************************************)
(* initialize(): the classification of the card.                           *)
(***************************************************************************)
\* the events of one kind, in the order seen
SeenOf(ev) == SelectSeq(wire.seen, LAMBDA e : e.ev = ev)

\* the frames of command c, in the order seen
FramesOf(c) == SelectSeq(wire.seen, LAMBDA e : IsCommand(e, c))

\* the byte compared with CMD8_STATUS is the fourth one after the R1 of CMD8
FourthTrailing(k) ==
    /\ k > 5
    /\ wire.seen[k].ev = "r7"
    /\ \A m \in 1..3 : wire.seen[k - m].ev = "skip"
    /\ wire.seen[k - 4].ev = "r1"
    /\ IsCommand(wire.seen[k - 5], CMD8)

\* C13: after a successful initialize(), card_type is SD1 iff CMD8 was
\* answered with R1 = 0x05, and then every ACMD41 carried argument 0 and no
\* CMD58 was sent; otherwise the fourth trailing byte of a CMD8 response was
\* 0xAA, every ACMD41 carried argument 0x40000000, CMD58 was sent once, and
\* card_type is SDHC iff the first OCR byte has the bit 0x40 set, else SD2;
\* the CSD is decoded as v1 iff card_type is SD1 and as v2 otherwise.
C13_Classification ==
    (Returned("initialize") /\ ret = Ok) =>
        LET legacy == loc.acks[CMD8] = IN_IDLE_AND_ILLEGAL
            opcond == FramesOf(ACMD41 - ACMD_FLAG)
            ocr == SeenOf("ocr")
        IN  /\ card_type = "SD1" <=> legacy
            /\ opcond # <<>>
            /\ legacy =>
                  /\ \A k \in 1..Len(opcond) :
                        <<opcond[k].b, opcond[k].c>> = U32(0, 0)
                  /\ FramesOf(CMD58) = <<>>
                  /\ ocr = <<>>
            /\ ~legacy =>
                  /\ \E k \in 1..Len(wire.seen) :
                        FourthTrailing(k) /\ wire.seen[k].a = CMD8_STATUS
                  /\ \A k \in 1..Len(opcond) :
                        <<opcond[k].b, opcond[k].c>> = U32(16384, 0)
                  /\ Len(FramesOf(CMD58)) = 1
                  /\ Len(ocr) = 1
                  /\ card_type = IF BitAnd(ocr[1].a, CMD58_OCR, 8) # 0
                                 THEN "SDHC" ELSE "SD2"
            /\ csd.ver = IF card_type = "SD1" THEN "V1" ELSE "V2"

\* a reset SDHC device is initialized as SD1: CMD8 was answered 0x05
C13_Witness ==
    /\ Returned("initialize") /\ ret = Ok
    /\ loc.acks[CMD8] = IN_IDLE_AND_ILLEGAL
    /\ card_type = "SD1" /\ csd.ver = "V1"
    /\ Len(FramesOf(CMD8)) = 2
    /\ Len(FramesOf(ACMD41 - ACMD_FLAG)) = 2

(***************************************************************************)
(* read(): what goes over the bus.                                         *)
(***************************************************************************)
\* the elements of a command that got its R1: the wait, the frame, the byte
\* skipped after CMD12, the R1
CommandSeen(c, a) ==
    <<Ev("ready", AVAILABLE, 0, 0, 0), Ev("frame", c, a[1], a[2], 6)>>
        \o (IF c = CMD12 THEN <<Ev("skip", 0, 0, 0, 0)>> ELSE <<>>)
        \o <<Ev("r1", 0, 0, 0, 0)>>

\* the CRC16 of a block the card sent; a block it did not send whole
\* (the read failed before) has none, and no byte equals its halves
SentCrc16(block) ==
    IF block \in DOMAIN BlockCrc16 THEN BlockCrc16[block] ELSE 65536

\* the elements of a data phase of read_data into buf[off+1 .. off+len]:
\* the token, the block, the CRC16 of the block high byte first
DataPhaseIn(off, len) ==
    LET crc == SentCrc16(SubSeq(buf, off + 1, off + len))
    IN  <<Ev("token", DATA_START_BLOCK, 0, 0, 0),
          Ev("data_in", off, len, 0, 0),
          Ev("crc_in", crc \div 256, 0, 0, 0),
          Ev("crc_in", crc % 256, 0, 0, 0)>>

RECURSIVE ChunksIn(_, _)
ChunksIn(k, n) ==
    IF k = n THEN <<>>
    ELSE DataPhaseIn(k * BLOCK_SIZE, BLOCK_SIZE) \o ChunksIn(k + 1, n)

\* what the closure of a read of n blocks at address a puts on the bus when
\* nothing fails
ReadSeen(n, a) ==
    CommandSeen(IF n = 1 THEN CMD17 ELSE CMD18, a)
        \o ChunksIn(0, n)
        \o (IF n > 1 THEN CommandSeen(CMD12, U32(0, 0)) ELSE <<>>)

\* the operation has returned after its scope was entered
ScopeOver(name) == Returned(name) /\ ScopeEntered

\* what was seen between the CS assert and the CS deassert
InScope == SubSeq(wire.seen, 2, Len(wire.seen) - 1)

\* one CS scope: the first element is the CS assert, the last one the CS
\* deassert, no CS call in between
OneScope ==
    /\ Len(wire.seen) >= 2
    /\ wire.seen[1] = Ev("cs_on", 1, 0, 0, 0)
    /\ wire.seen[Len(wire.seen)].ev = "cs_off"
    /\ \A k \in 1..Len(InScope) : InScope[k].ev \notin {"cs_on", "cs_off"}

\* element g is the expected element e; of a data response only the bits
\* of DATA_RES_MASK count
Same(g, e) ==
    IF g.ev = "data_res" /\ e.ev = "data_res"
    THEN BitAnd(g.a, DATA_RES_MASK, 8) = BitAnd(e.a, DATA_RES_MASK, 8)
    ELSE g = e

\* element g is element e, or e cut short by a failure: a frame or a block
\* of which fewer bytes went over the bus, another byte than the one waited
\* for
CutShort(g, e) ==
    /\ g.ev = e.ev
    /\ CASE g.ev = "frame" -> g.a = e.a /\ g.b = e.b /\ g.c = e.c /\ g.d <= e.d
         [] g.ev \in {"data_in", "data_out"} -> g.a = e.a /\ g.b <= e.b
         [] g.ev \in {"token", "crc_in", "data_res", "status"} -> TRUE
         [] OTHER -> g = e

\* the number of elements at the end of got the failure may have come at:
\* the last one, or the two bytes of the CRC that was compared last
FailedAt(got) ==
    IF /\ got # <<>>
       /\ got[Len(got)].ev = "crc_in"
       /\ Len(SelectSeq(got, LAMBDA e : e.ev = "crc_in")) % 2 = 0
    THEN 2 ELSE 1

\* got is what is expected when nothing failed (whole); else it is what is
\* expected up to the element at which the failure came
Expected(got, expected, whole) ==
    /\ Len(got) <= Len(expected)
    /\ whole => Len(got) = Len(expected)
    /\ \A k \in 1..Len(got) :
          IF whole \/ k <= Len(got) - FailedAt(got)
          THEN Same(got[k], expected[k])
          ELSE CutShort(got[k], expected[k])

AsExpected(got, expected) == Expected(got, expected, ret = Ok)

\* C14: on an initialized device a read of one block issues CMD17(addr),
\* then exactly one data phase into buf and no CMD12; a read of N > 1
\* blocks issues CMD18(addr), then exactly N data phases filling the chunks
\* of buf in ascending order, then (all data phases having succeeded) CMD12
\* with argument 0 and exactly one byte discarded between its frame and its
\* R1; all inside one CS scope, whatever valid R1 the commands got.
C14_ReadSequence ==
    ScopeOver("read") =>
        /\ OneScope
        /\ AsExpected(InScope,
                      ReadSeen(op.len \div BLOCK_SIZE,
                               ConvertLba(card_type, op.lba)))

\* a read of two blocks returned Ok although CMD18 and CMD12 were answered
\* with an R1 other than READY
C14_Witness ==
    /\ ScopeOver("read") /\ ret = Ok
    /\ op.len = 2 * BLOCK_SIZE
    /\ loc.acks[CMD18] = IN_IDLE_STATE
    /\ loc.acks[CMD12] = IN_IDLE_STATE
    /\ Len(SeenOf("data_in")) = 2

(***************************************************************************)
(* write() of one block.                                                   *)
(***************************************************************************)
\* the elements of a data phase of write_data(token, buf[off+1 .. off+len])
DataPhaseOut(token, off, len) ==
    LET crc == BlockCrc16[SubSeq(buf, off + 1, off + len)]
    IN  <<Ev("token_out", token, 0, 0, 0), Ev("data_out", off, len, 0, 0),
          Ev("crc_out", crc \div 256, 0, 0, 0),
          Ev("crc_out", crc % 256, 0, 0, 0),
          Ev("data_res", DATA_RES_ACCEPTED, 0, 0, 0)>>

\* what the closure of a write of one block at address a puts on the bus
\* when nothing fails
WriteOneSeen(a) ==
    CommandSeen(CMD24, a)
        \o DataPhaseOut(DATA_START_BLOCK, 0, BLOCK_SIZE)
        \o <<Ev("ready", AVAILABLE, 0, 0, 0)>>
        \o CommandSeen(CMD13, U32(0, 0))
        \o <<Ev("status", READY_STATE, 0, 0, 0)>>

\* the closure of a write has returned: either the scope is about to call
\* unselect(), or write has returned after an unselect() that succeeded
\* (after one that failed, write returns SelectError whatever the closure
\* returned)
ClosureOver(name) ==
    /\ op.name = name
    /\ \/ pc = "cs_unselect"
       \/ /\ ScopeOver(name)
          /\ csLog[Len(csLog)] = [call |-> "off", ok |-> TRUE]

\* what was seen since the CS assert, the CS deassert left out
ClosureSeen ==
    SelectSeq(SubSeq(wire.seen, 2, Len(wire.seen)),
              LAMBDA e : e.ev # "cs_off")

\* the last thing on the bus was a poll of a wait that then gave up
WaitGaveUp == spi = Xfer("poll", RECEIVE_TRANSFER_TOKEN, TRUE)

\* the deviations of a write of one block: the data response is rejected,
\* the R1 of CMD13 is not READY, the byte after it is not zero
Rejected(seen) ==
    /\ seen # <<>>
    /\ LET last == seen[Len(seen)]
       IN  \/ /\ last.ev = "data_res"
              /\ BitAnd(last.a, DATA_RES_MASK, 8) # DATA_RES_ACCEPTED
           \/ /\ last.ev = "r1"
              /\ IsCommand(seen[Len(seen) - 1], CMD13)
              /\ loc.acks[CMD13] # READY_STATE
           \/ last.ev = "status" /\ last.a # READY_STATE

\* a wait-available after the data phase did not see 0xFF
BusyAfterData(seen) ==
    /\ WaitGaveUp
    /\ seen # <<>>
    /\ \/ seen[Len(seen)].ev = "data_res"
       \/ /\ seen[Len(seen)].ev = "ready"
          /\ seen[Len(seen) - 1].ev = "data_res"

\* the sequence of a write of one block, and Ok only after all of it
WriteOneOrder ==
    /\ Expected(ClosureSeen, WriteOneSeen(ConvertLba(card_type, op.lba)),
                loc.err = NoErr)
    /\ loc.err = NoErr => loc.acks[CMD13] = READY_STATE
    /\ pc = "idle" => ret = IF loc.err = NoErr THEN Ok ELSE Hardware(loc.err)

RECURSIVE ChunksOut(_, _)
ChunksOut(k, n) ==
    IF k = n THEN <<>>
    ELSE <<Ev("ready", AVAILABLE, 0, 0, 0)>>
             \o DataPhaseOut(WRITE_MULTIPLE, k * BLOCK_SIZE, BLOCK_SIZE)
             \o ChunksOut(k + 1, n)

\* what the closure of a write of n > 1 blocks at address a puts on the bus
\* when nothing fails
WriteManySeen(n, a) ==
    CommandSeen(CMD25, a)
        \o ChunksOut(0, n)
        \o <<Ev("ready", AVAILABLE, 0, 0, 0), Ev("send", STOP_TRAN, 0, 0, 0)>>

\* C16: a write of N > 1 blocks on an initialized device issues
\* CMD25(addr), then per chunk in ascending order a wait-available and a
\* data phase (token 0xFC, the 512 bytes, CRC16 high byte then low byte, one
\* data-response byte), then one more wait-available and the byte STOP_TRAN;
\* no other command frame follows CMD25 in the operation and CS is
\* deasserted right after STOP_TRAN.
C16_WriteSequence ==
    (ScopeOver("write") /\ op.len > BLOCK_SIZE) =>
        /\ OneScope
        /\ AsExpected(InScope,
                      WriteManySeen(op.len \div BLOCK_SIZE,
                                    ConvertLba(card_type, op.lba)))
        /\ Len(SeenOf("frame")) <= 1
        /\ \A k \in 1..Len(SeenOf("frame")) :
              IsCommand(SeenOf("frame")[k], CMD25)

\* a write of two blocks returned Ok: STOP_TRAN is the last byte before the
\* CS deassert
C16_Witness ==
    /\ ScopeOver("write") /\ ret = Ok
    /\ op.len = 2 * BLOCK_SIZE
    /\ Len(SeenOf("data_out")) = 2
    /\ wire.seen[Len(wire.seen) - 1] = Ev("send", STOP_TRAN, 0, 0, 0)
    /\ wire.seen[Len(wire.seen)] = Ev("cs_off", 1, 0, 0, 0)

(***************************************************************************)
(* read() and write(): the errors of the data phases.                      *)
(***************************************************************************)
\* the closure of a read or write has returned, the scope has not yet
\* called unselect()
ClosureReturned(names) == pc = "cs_unselect" /\ op.name \in names

\* both bytes of the CRC of a block were received last
CrcReceived(seen) ==
    /\ Len(seen) >= 3
    /\ seen[Len(seen)].ev = "crc_in"
    /\ FailedAt(seen) = 2
    /\ seen[Len(seen) - 2].ev = "data_in"

\* the two bytes as the card's CRC, the first one high
CardCrc(seen) == seen[Len(seen) - 1].a * 256 + seen[Len(seen)].a

\* the CRC16 of the block received before them
HostCrc(seen) ==
    LET off == seen[Len(seen) - 2].a
    IN  SentCrc16(SubSeq(buf, off + 1, off + BLOCK_SIZE))

\* the closure was waiting for the token of a data phase when it returned:
\* the last element is the R1 of CMD17 or CMD18, or the CRC of a chunk
\* that is not the last one
TokenAwaited(seen) ==
    /\ seen # <<>>
    /\ \/ seen[Len(seen)].ev = "r1"
          /\ seen[Len(seen) - 1].a \in {CMD17, CMD18}
       \/ /\ CrcReceived(seen)
          /\ CardCrc(seen) = HostCrc(seen)
          /\ Len(SelectSeq(seen, LAMBDA e : e.ev = "data_in"))
                < op.len \div BLOCK_SIZE

\* what a read whose data phase failed comes to, by what the card did:
\* result is what the closure or read itself returns
ReadFailures(result) ==
    LET seen == ClosureSeen
    IN  /\ (CrcReceived(seen) /\ CardCrc(seen) # HostCrc(seen))
              => result = Hardware(CrcError(CardCrc(seen), HostCrc(seen)))
        /\ (seen # <<>> /\ seen[Len(seen)].ev = "token"
               /\ seen[Len(seen)].a # DATA_START_BLOCK)
              => result = Hardware(ReadError)
        /\ (TokenAwaited(seen) /\ WaitGaveUp)
              => result = Hardware(TimeoutReadBuffer)

\* a read or write changes neither status nor card_type nor csd and never
\* returns CardNotFound
DeviceKept ==
    op'.name \in {"read", "write"} =>
        /\ UNCHANGED <<status, card_type, csd>>
        /\ ret' # Hardware(CardNotFound)

\* C17: data I/O errors are surfaced untranslated and leave the device as
\* it was: a read whose two CRC bytes (first byte high) differ from the
\* CRC16 of the received block fails with Hardware(CrcError(card, host))
\* with these two values, one whose token is not 0xFE with ReadError, one
\* that gets no token within CMD_MAX_ATTEMPTS receives with
\* TimeoutReadBuffer; a failing read or write leaves status, card_type and
\* csd unchanged and never returns CardNotFound.
C17_Step ==
    /\ ClosureReturned({"read"}) => ReadFailures(ret')
    /\ DeviceKept

C17_DataErrorsSurfaced == [][C17_Step]_vars

\* the capacity in bytes a version 1 CSD stands for, in 64 bits
CapacityBytes(raw) ==
    ShlWide(Wide(DeviceSize(raw) + 1, 4),
            DeviceSizeMultiplier(raw) + ReadBlockLength(raw) + 2)

CapacityReturned == pc = "idle" /\ op.name = "card_capacity"

\* C18: for every version 1 CSD card_capacity() is
\* (device_size + 1) << (device_size_multiplier + read_block_length + 2)
\* bytes, computed without truncation or overflow, and so 512 times
\* card_capacity_blocks().
C18_CapacityV1 ==
    CapacityReturned =>
        /\ ret = Value(CapacityBytes(csd.raw))
        /\ \A b \in CardCapacityBlocksV1(csd.raw) :
              b # Panic /\ ShlWide(b.v, 9) = ret.v


\* the operation called, or in progress, is ioctl(c)
Ioctl(c) == op'.name = "ioctl" /\ op'.ioctl = c

\* what CtrlSync does at one step: it starts polling whatever the status,
\* goes on while the card answers other than 0xFF, returns Ok after the
\* first 0xFF and gives up after CMD_MAX_ATTEMPTS receives
CtrlSyncStep ==
    CASE pc = "idle" ->
           /\ pc' = "wait_for_token"
           /\ loc'.want = "available" /\ loc'.i = 0
           /\ spi' = NoTransfer /\ wire'.seen = <<>>
      [] pc = "wait_for_token" ->
           /\ spi' = Xfer("poll", RECEIVE_TRANSFER_TOKEN, spi'.ok)
           /\ IF ~spi'.ok
              THEN pc' = "idle" /\ ret' = Hardware(Transport)
              ELSE IF wire'.seen = <<Ev("ready", AVAILABLE, 0, 0, 0)>>
              THEN pc' = "ioctl_done" /\ ret' = Running
              ELSE IF loc.i + 1 = CMD_MAX_ATTEMPTS
              THEN pc' = "idle" /\ ret' = Hardware(TimeoutWaitAvailable)
              ELSE /\ pc' = "wait_for_token" /\ loc'.i = loc.i + 1
                   /\ ret' = Running /\ wire'.seen = <<>>
      [] OTHER ->
           /\ pc = "ioctl_done" /\ pc' = "idle" /\ ret' = Ok
           /\ UNCHANGED <<spi, wire>>

\* C19: ioctl(CtrlSync) performs receives until the first 0xFF and then
\* returns Ok, gives up with Hardware(TimeoutWaitAvailable) after exactly
\* CMD_MAX_ATTEMPTS receives none of which was 0xFF, sends no command
\* frame, makes no CS call, runs whether or not the device is initialized
\* and leaves status unchanged; ioctl(GetBlockSize) outputs 512 with no bus
\* activity; every other ioctl command fails NotSupported.
C19_Step ==
    op'.name = "ioctl" =>
        /\ UNCHANGED <<status, card_type, csd, csLine>>
        /\ frame' = NoFrame /\ csLog' = <<>>
        /\ Ioctl("CtrlSync") => CtrlSyncStep
        /\ Ioctl("GetBlockSize") =>
              /\ ret' = Ok /\ loc'.block_size = BLOCK_SIZE
              /\ spi' = NoTransfer /\ wire'.seen = <<>>
        /\ op'.ioctl \notin {"CtrlSync", "GetBlockSize"} =>
              /\ ret' = NotSupported
              /\ spi' = NoTransfer /\ wire'.seen = <<>>

C19_Ioctl == [][C19_Step]_vars

\* CtrlSync on a device never initialized gave up after CMD_MAX_ATTEMPTS
\* receives
C19_Witness ==
    /\ pc = "idle" /\ op.name = "ioctl" /\ op.ioctl = "CtrlSync"
    /\ NotInitialized \in status
    /\ ret = Hardware(TimeoutWaitAvailable)
    /\ spi = Xfer("poll", RECEIVE_TRANSFER_TOKEN, TRUE)
    /\ wire.probe /\ wire.seen = <<>>


\* send_command_impl is in progress: in its wait, at its frame, at the byte
\* skipped after CMD12, or in its R1 loop
InWait ==
    /\ pc = "wait_for_token" /\ loc.want = "available"
    /\ stack # <<>> /\ Head(stack) = "sc_frame"

\* the command in progress fails with e at this step: the error goes to the
\* caller that handles it, or ends the operation
Aborted(e) == loc'.err = e /\ pc' \in Handlers \cup {"idle"}

\* the event this step has put on the wire
Put(e) == wire'.seen = Append(wire.seen, e)

WaitStep ==
    IF ~spi'.ok THEN Aborted(Transport) /\ UNCHANGED <<frame, wire>>
    ELSE IF Put(Ev("ready", AVAILABLE, 0, 0, 0))
    THEN pc' = "sc_frame" /\ stack' = Tail(stack) /\ frame' = frame
    ELSE IF loc.i + 1 = CMD_MAX_ATTEMPTS
    THEN Aborted(TimeoutWaitAvailable) /\ UNCHANGED <<frame, wire>>
    ELSE /\ pc' = "wait_for_token" /\ loc'.i = loc.i + 1
         /\ UNCHANGED <<frame, wire>>

FrameStep ==
    IF frame'.sent < Len(frame'.bytes)
    THEN ~spi'.ok /\ Aborted(Transport)
    ELSE /\ spi'.ok /\ loc'.j = 0
         /\ pc' = IF loc.cmd = CMD12 THEN "sc_skip" ELSE "sc_r1"

SkipStep ==
    IF ~spi'.ok THEN Aborted(Transport)
    ELSE pc' = "sc_r1" /\ loc'.j = 0

R1Step ==
    IF ~spi'.ok THEN Aborted(Transport) /\ wire' = wire
    ELSE IF Put(Ev("r1", 0, 0, 0, 0))
    THEN /\ loc'.r1 < INVALID_MASK
         /\ \/ pc' = Head(stack) /\ stack' = Tail(stack)
            \/ /\ loc.cmd = CMD55 /\ loc.pcmd # 0
               /\ pc' = "wait_for_token" /\ loc'.cmd = loc.pcmd
               /\ Head(stack') = "sc_frame"
    ELSE IF loc.j + 1 = READ_R1_ATTEMPTS
    THEN Aborted(TimeoutCommand(loc.cmd)) /\ wire' = wire
    ELSE pc' = "sc_r1" /\ loc'.j = loc.j + 1 /\ wire' = wire

\* every frame on the wire comes right after a 0xFF received in a
\* wait-available poll
FramesAfterReady ==
    \A k \in 1..Len(wire.seen) :
        wire.seen[k].ev = "frame" =>
            k > 1 /\ wire.seen[k - 1] = Ev("ready", AVAILABLE, 0, 0, 0)

\* after a transfer the transport failed the operation makes no other
NotRetried == (~spi.ok /\ pc # "idle") => spi' = spi

\* C20: for every command frame: no byte of the frame is sent before a
\* 0xFF has been received in the wait-available poll before it; when
\* CMD_MAX_ATTEMPTS receives in a row differ from 0xFF the command fails
\* with TimeoutWaitAvailable and no frame byte is sent; after the 6 frame
\* bytes (and one discarded byte for CMD12) the first received byte with
\* the high bit clear is returned as R1, and when READ_R1_ATTEMPTS receives
\* all have it set the command fails with TimeoutCommand(cmd); a transport
\* error at any receive or send aborts the command at once with Transport
\* and nothing is retried.
C20_Step ==
    /\ InWait => WaitStep
    /\ pc = "sc_frame" => FrameStep
    /\ pc = "sc_skip" => SkipStep
    /\ pc = "sc_r1" => R1Step
    /\ FramesAfterReady
    /\ NotRetried

C20_CommandEngine == [][C20_Step]_vars

\* a read whose CMD17 was sent whole and got READ_R1_ATTEMPTS bytes with the
\* high bit set
C20_Witness ==
    /\ pc = "cs_unselect" /\ op.name = "read"
    /\ loc.err = TimeoutCommand(CMD17)
    /\ wire.seen # <<>>
    /\ IsCommand(wire.seen[Len(wire.seen)], CMD17)
    /\ spi = Xfer("r1", RECEIVE_TRANSFER_TOKEN, TRUE)

\* an attempt of enter_spi_mode is over: send_command(CMD0, 0) returned
\* its R1 or TimeoutCommand(CMD0)
AttemptOver ==
    pc = "esm_match" /\ loc.err \in {NoErr, TimeoutCommand(CMD0)}

\* CMD0 goes out with argument 0, at most ENTER_SPI_MODE_ATTEMPTS times in
\* one operation; when attempt loc.n is over it has gone out loc.n + 1 times
Cmd0Frames ==
    /\ Len(FramesOf(CMD0)) <= ENTER_SPI_MODE_ATTEMPTS
    /\ \A k \in 1..Len(FramesOf(CMD0)) : IsFrame(FramesOf(CMD0)[k], CMD0, 0, 0)
    /\ AttemptOver => Len(FramesOf(CMD0)) = loc.n + 1

\* the next thing enter_spi_mode or its caller does is send command c
Sends(c) ==
    /\ pc' = "wait_for_token" /\ loc'.want = "available"
    /\ Head(stack') = "sc_frame"
    /\ loc'.cmd = c /\ loc'.arg = U32(0, IF c = CMD59 THEN 1 ELSE 0)

\* what enter_spi_mode does with the outcome of an attempt
MatchStep ==
    IF loc.err = NoErr /\ loc.r1 = IN_IDLE_STATE
    THEN Sends(CMD59)
    ELSE IF ~AttemptOver
    THEN pc' = "cs_unselect" /\ loc'.err = loc.err
    ELSE IF loc.n + 1 < ENTER_SPI_MODE_ATTEMPTS
    THEN Sends(CMD0) /\ loc'.n = loc.n + 1
    ELSE pc' = "cs_unselect" /\ loc'.err = TimeoutCommand(CMD0)

\* initialize() whose closure failed in enter_spi_mode with all attempts
\* used up
UsedUp ==
    /\ pc = "cs_unselect" /\ op.name = "initialize"
    /\ loc.err = TimeoutCommand(CMD0)

\* C21: enter_spi_mode sends CMD0 with argument 0 at most
\* ENTER_SPI_MODE_ATTEMPTS times and stops at the first attempt answered
\* with R1 = IN_IDLE_STATE; an attempt that ends in TimeoutCommand(CMD0) or
\* in another valid R1 is followed by the next attempt; any other error
\* aborts at once; with all attempts used up it fails with
\* TimeoutCommand(CMD0), which initialize() reports as CardNotFound with
\* status NotInitialized | ErrorOccured.
C21_Step ==
    /\ Cmd0Frames
    /\ pc = "esm_match" => MatchStep /\ UNCHANGED wire
    /\ UsedUp =>
          /\ ret' = Hardware(CardNotFound)
          /\ status' = {NotInitialized, ErrorOccured}

C21_EnterSpiMode == [][C21_Step]_vars

\* initialize() has returned CardNotFound after ENTER_SPI_MODE_ATTEMPTS
\* CMD0 frames none of which was answered with IN_IDLE_STATE
C21_Witness ==
    /\ InitializeRan
    /\ ret = Hardware(CardNotFound)
    /\ status = {NotInitialized, ErrorOccured}
    /\ loc.err = TimeoutCommand(CMD0)
    /\ Len(FramesOf(CMD0)) = ENTER_SPI_MODE_ATTEMPTS
    /\ FramesOf(CMD59) = <<>>

\* the most calls of transfer() one send_command_impl makes: the wait, the
\* frame, the byte skipped after CMD12 (skip = 1), the R1 loop
CommandBound(skip) == CMD_MAX_ATTEMPTS + 6 + skip + READ_R1_ATTEMPTS

\* the most of read_data for len bytes: the token wait, the block, its CRC
ReadDataBound(len) == CMD_MAX_ATTEMPTS + len + 2

\* those of write_data for len bytes: the token, the block, its CRC, the
\* data response
WriteDataBound(len) == 1 + len + 2 + 1

\* the most calls of transfer() in the facade operation o, by the loop
\* bounds and the length of the buffer
TransferBound(o) ==
    LET blocks == o.len \div BLOCK_SIZE
    IN  CASE o.name = "initialize" ->
               INIT_SET_SIZE
                 + ENTER_SPI_MODE_ATTEMPTS * CommandBound(0)
                 + CommandBound(0)
                 + CMD_MAX_ATTEMPTS * (CommandBound(0) + 4)
                 + CMD_MAX_ATTEMPTS * 2 * CommandBound(0)
                 + CommandBound(0) + 4
                 + CommandBound(0) + ReadDataBound(CsdDataLen)
          [] o.name = "read" ->
               CommandBound(0) + blocks * ReadDataBound(BLOCK_SIZE)
                 + (IF blocks > 1 THEN CommandBound(1) ELSE 0)
          [] o.name = "write" ->
               IF blocks = 1
               THEN CommandBound(0) + WriteDataBound(BLOCK_SIZE)
                      + CMD_MAX_ATTEMPTS + CommandBound(0) + 1
               ELSE CommandBound(0)
                      + blocks * (CMD_MAX_ATTEMPTS + WriteDataBound(BLOCK_SIZE))
                      + CMD_MAX_ATTEMPTS + 1
          [] o.name = "ioctl" -> CMD_MAX_ATTEMPTS
          [] OTHER -> 0

\* the loops are within their bounds
LoopsBounded ==
    /\ pc = "wait_for_token" => loc.i < CMD_MAX_ATTEMPTS
    /\ pc = "sc_r1" => loc.j < READ_R1_ATTEMPTS
    /\ pc = "esm_match" => loc.n < ENTER_SPI_MODE_ATTEMPTS

Bounded == LoopsBounded /\ wire.n <= TransferBound(op)

\* C22: every facade operation terminates whatever bytes the card returns,
\* provided each SPI transfer and CS call returns: every wait is a poll
\* loop bounded by CMD_MAX_ATTEMPTS, READ_R1_ATTEMPTS or
\* ENTER_SPI_MODE_ATTEMPTS, the number of SPI transfers of one operation
\* is bounded by a function of these and of the buffer length, and a card
\* that never answers leads to a timeout, not to an endless loop.
C22_Terminates == []Bounded /\ ((pc # "idle") ~> (pc = "idle"))

\* a read from a card that answered none of the CMD_MAX_ATTEMPTS polls has
\* returned TimeoutWaitAvailable
C22_Witness ==
    /\ pc = "idle" /\ op.name = "read" /\ wire.count
    /\ wire.n = CMD_MAX_ATTEMPTS
    /\ ret = Hardware(TimeoutWaitAvailable)

\* the three values status takes
StatusValues == {{NotInitialized}, {}, {NotInitialized, ErrorOccured}}

\* C23: in every state reachable by any sequence of new, initialize, reset,
\* read, write and ioctl calls, whatever the card and the bus do, status is
\* one of {NotInitialized}, {} and {NotInitialized, ErrorOccured}, so
\* ErrorOccured is never set without NotInitialized; the empty status is
\* entered only by an initialize() that returns Ok; only initialize() and
\* reset() change status.
C23_Step ==
    /\ status \in StatusValues /\ status' \in StatusValues
    /\ (status' = {} /\ status # {}) =>
          /\ op'.name = "initialize" /\ pc' = "idle" /\ ret' = Ok
    /\ status' # status => op'.name \in {"initialize", "reset"}

C23_Status == [][C23_Step]_vars

\* an initialize() that failed has left both flags set
C23_Witness ==
    /\ Returned("initialize")
    /\ ret = Hardware(CardNotFound)
    /\ status = {NotInitialized, ErrorOccured}
    /\ ~wire.probe /\ ~wire.count

\* a transfer of several blocks
Blocks == op.len \div BLOCK_SIZE
MultiBlock == op.name \in {"read", "write"} /\ Blocks > 1

\* a data phase of a transfer of several blocks is in progress: read_data
\* or write_data of a chunk, or the wait before the write_data of a chunk
InDataPhase ==
    /\ MultiBlock /\ loc.count > 1
    /\ \/ pc \in {"rd_token", "rd_slice", "rd_crc_hi", "rd_crc_lo",
                  "wd_token", "wd_slice", "wd_crc_hi", "wd_crc_lo", "wd_resp"}
       \/ /\ pc = "wait_for_token"
          /\ Head(stack) \in {"rd_token", "wrm_ready"}

\* command c went out whole and got its R1
Accepted(c) ==
    \E k \in 1..(Len(wire.seen) - 1) :
        /\ IsCommand(wire.seen[k], c) /\ Whole(wire.seen[k])
        /\ wire.seen[k + 1].ev = "r1"

\* the closure of a transfer of several blocks has returned an error from a
\* data phase: after the command was accepted and before every chunk was
\* through
DataPhaseFailed ==
    /\ pc = "cs_unselect" /\ MultiBlock /\ loc.err # NoErr
    /\ IF op.name = "read"
       THEN /\ Accepted(CMD18) /\ FramesOf(CMD12) = <<>>
            /\ \/ Len(SeenOf("crc_in")) < 2 * Blocks
               \/ loc.err.kind = "CrcError"
       ELSE /\ Accepted(CMD25)
            /\ \/ Len(SeenOf("data_res")) < Blocks
               \/ loc.err = WriteError

\* the errors a data phase fails with
DataPhaseErrors ==
    {"ReadError", "CrcError", "TimeoutReadBuffer", "WriteError",
     "TimeoutWaitAvailable", "Transport"}

\* no CMD12 and no STOP_TRAN went out
NoTerminator ==
    /\ FramesOf(CMD12) = <<>>
    /\ \A k \in 1..Len(wire.seen) :
          wire.seen[k] # Ev("send", STOP_TRAN, 0, 0, 0)

\* the chunks of a read after the last one read_data received into are as
\* the caller passed them
LaterChunksKept ==
    op.name = "read" =>
        \A j \in (Len(SeenOf("data_in")) * BLOCK_SIZE + 1)..Len(buf) :
            buf[j] \in CallerFills

\* the CS deassert is all that follows, and the operation returns e
OnlyDeassert(e) ==
    /\ \E ok \in {0, 1} : Put(Ev("cs_off", ok, 0, 0, 0))
    /\ UNCHANGED <<spi, frame, buf>>
    /\ pc' = "idle"
    /\ ret' = Hardware(e)

\* C24: when a data phase fails in the middle of a multi-block transfer
\* (with ReadError, CrcError, TimeoutReadBuffer, WriteError,
\* TimeoutWaitAvailable or Transport) the operation returns that error at
\* once: no further chunk is transferred, no CMD12 and no STOP_TRAN is
\* sent, the only bus event that follows is the CS deassert, and the
\* chunks of a read after the failed one are unmodified.
C24_Step ==
    /\ (InDataPhase /\ loc'.err # NoErr) => DataPhaseFailed'
    /\ DataPhaseFailed =>
          /\ loc.err.kind \in DataPhaseErrors
          /\ NoTerminator /\ LaterChunksKept
          /\ OnlyDeassert(loc.err)

C24_MidTransferFailure == [][C24_Step]_vars


====
